---- MODULE Spec2Model ----
(***************************************************************************)
(* Bofuri RP game-master aid: the combat resolver (src/src/rules.py and    *)
(* the older duel screen src/app.py), the encounter turn manager           *)
(* (src/src/models.py, src/src/ui.py) and the monster variant interpolator *)
(* (src/src/variant_interp.py).                                            *)
(*                                                                         *)
(* Python floats are modelled as exact fractions [num, den] in lowest      *)
(* terms with den > 0, so that equal reals are equal records.              *)
(***************************************************************************)
EXTENDS Integers, Sequences, FiniteSets, TLC

----------------------------------------------------------------------------
(* Exact arithmetic standing for Python float arithmetic *)

Abs(x) == IF x < 0 THEN -x ELSE x

RECURSIVE GCD(_, _)
GCD(a, b) == IF b = 0 THEN a ELSE GCD(b, a % b)

Frac(n, d) ==
  LET s == IF d < 0 THEN -1 ELSE 1
      g == GCD(Abs(n), Abs(d))
  IN  [num |-> (s * n) \div g, den |-> (s * d) \div g]

Float(i) == Frac(i, 1)

Zero == Float(0)

\* least common denominator of two fractions
LCD(a, b) == (a.den \div GCD(a.den, b.den)) * b.den

\* the numerator of a over the denominator d, a multiple of a.den
Numer(a, d) == a.num * (d \div a.den)

Plus(a, b) == Frac(Numer(a, LCD(a, b)) + Numer(b, LCD(a, b)), LCD(a, b))

Minus(a, b) == Frac(Numer(a, LCD(a, b)) - Numer(b, LCD(a, b)), LCD(a, b))

Times(a, b) == Frac(a.num * b.num, a.den * b.den)

Over(a, b) == Frac(a.num * b.den, a.den * b.num)

Gt(a, b) == Numer(a, LCD(a, b)) > Numer(b, LCD(a, b))

Ge(a, b) == Numer(a, LCD(a, b)) >= Numer(b, LCD(a, b))

Max(a, b) == IF Gt(b, a) THEN b ELSE a

\* Python's None, and the absent key of a dict read with .get()
None == [none |-> TRUE]

----------------------------------------------------------------------------
(* src/src/rules.py: the resolver used by the encounter action panel *)

AttackTypes == {"phys", "magic", "ranged"}

_attack_stat(attacker, attack_type) ==
  CASE attack_type = "phys"   -> attacker.STR
    [] attack_type = "magic"  -> attacker.INT
    [] attack_type = "ranged" -> attacker.DEX

\* the defence of app.py's resolver: VIT alone
_defense_stat_vit_only(defender, attack_type) == defender.VIT

_defense_stat(defender, attack_type) ==
  CASE attack_type = "phys"   -> Plus(defender.VIT, Times(defender.STR, Frac(2, 10)))
    [] attack_type = "magic"  -> Plus(defender.VIT, Times(defender.INT, Frac(2, 10)))
    [] attack_type = "ranged" -> Plus(defender.VIT, Times(defender.AGI, Frac(2, 10)))

\* dmg = dmg * factor, rules.py lines 95-104
DamageFactor(attack_type, roll_a) ==
  CASE attack_type = "phys"   -> Float(1)
    [] attack_type = "magic"  -> IF Gt(roll_a, Float(15)) THEN Frac(12, 10) ELSE Frac(9, 10)
    [] attack_type = "ranged" -> Frac(95, 100)

\* armor pierce ignoring the whole defence
PierceShareNone(perce_armure) == IF perce_armure THEN Zero ELSE Float(1)

\* the share of vit_term subtracted from the damage, rules.py lines 106-111
PierceShare(perce_armure) == IF perce_armure THEN Frac(3, 10) ELSE Float(1)

\* the whole defence value returned whatever the attack type
CounterFactorFull(attack_type) == Float(1)

\* contrecoup = defense_power * factor, rules.py lines 129-138
CounterFactor(attack_type) ==
  CASE attack_type = "phys"   -> Float(1)
    [] attack_type = "magic"  -> Frac(7, 10)
    [] attack_type = "ranged" -> Frac(5, 10)

\* the comparison written >=: a tie would hit
AttackerHitsOnTie(roll_a, roll_b) == Ge(roll_a, roll_b)

\* if roll_a > roll_b: the attacker hits; a tie goes to the defence branch
AttackerHits(roll_a, roll_b) == Gt(roll_a, roll_b)

\* the subtraction without its floor
ApplyDamageNoFloor(hp, dmg) == Minus(hp, dmg)

\* max(0.0, float(hp) - dmg)
ApplyDamage(hp, dmg) == Max(Zero, Minus(hp, dmg))

\* the damage taken from mp instead of hp
TakeDamageOnMp(entity, dmg) == [entity EXCEPT !.mp = ApplyDamage(entity.mp, dmg)]

\* entity.hp = max(0.0, float(entity.hp) - dmg): the one assignment to an entity
TakeDamage(entity, dmg) == [entity EXCEPT !.hp = ApplyDamage(entity.hp, dmg)]

\* the contrecoup applied without its guard
RecoilsAlways(defense_power) == TRUE

\* if defense_power > 0: the attacker takes the contrecoup
Recoils(defense_power) == Gt(defense_power, Zero)

\* The result is the pair of entities after the call and the returned dict.
resolve_attack(attacker, defender, roll_a, roll_b, attack_type, perce_armure, vit_scale_div) ==
  LET defense_stat == _defense_stat(defender, attack_type)
      vit_term == Over(defense_stat, vit_scale_div)
      atk == _attack_stat(attacker, attack_type)
      out0 == [hit |-> FALSE, roll_a |-> roll_a, roll_b |-> roll_b,
               attack_type |-> attack_type, perce_armure |-> perce_armure,
               vit_scale_div |-> vit_scale_div, atk_stat |-> atk,
               defense_stat |-> defense_stat]
  IN  IF AttackerHits(roll_a, roll_b)
      THEN LET base == Times(Plus(Minus(roll_a, roll_b), atk), DamageFactor(attack_type, roll_a))
               dmg == Max(Zero, Minus(base, Times(vit_term, PierceShare(perce_armure))))
           IN  [attacker |-> attacker,
                defender |-> TakeDamage(defender, dmg),
                out |-> [out0 EXCEPT !.hit = TRUE] @@
                        [raw |-> [damage |-> dmg], effects |-> <<"inflige", "pv_defender">>]]
      ELSE LET defense_power == Minus(Plus(Minus(roll_b, roll_a), vit_term), atk)
           IN  IF Recoils(defense_power)
               THEN LET contrecoup == Times(defense_power, CounterFactor(attack_type))
                    IN  [attacker |-> TakeDamage(attacker, contrecoup),
                         defender |-> defender,
                         out |-> out0 @@ [raw |-> [defense_value |-> defense_power],
                                          effects |-> <<"contrecoup", "pv_attacker">>]]
               ELSE [attacker |-> attacker,
                     defender |-> defender,
                     out |-> out0 @@ [raw |-> [defense_value |-> defense_power],
                                      effects |-> <<"aucun_degat">>]]

----------------------------------------------------------------------------
(* src/app.py: the duel screen.  Every button press reruns the script,     *)
(* which reloads the roster from data/entities.json before anything else.  *)

EntityDict(name, kind, level, hp_max, mp_max, STR, AGI, INT, DEX, VIT) ==
  [name |-> name, kind |-> kind, level |-> level,
   hp_max |-> Float(hp_max), mp_max |-> Float(mp_max),
   STR |-> Float(STR), AGI |-> Float(AGI), INT |-> Float(INT),
   DEX |-> Float(DEX), VIT |-> Float(VIT),
   hp |-> None, mp |-> None]

default_entities ==
  << EntityDict("Guerrier", "PJ", 10, 300, 50, 35, 12, 5, 10, 25),
     EntityDict("Lapin", "Mob", 1, 10, 5, 3, 8, 2, 5, 2),
     EntityDict("BEE", "Mob", 10, 50, 30, 15, 25, 8, 20, 10),
     EntityDict("Hydre", "Boss", 15, 1500, 200, 60, 20, 45, 30, 80) >>

ensure_current(e) ==
  [e EXCEPT !.hp = IF e.hp = None THEN e.hp_max ELSE e.hp,
            !.mp = IF e.mp = None THEN e.mp_max ELSE e.mp]

load_entities(file) == [i \in DOMAIN file |-> ensure_current(file[i])]

save_entities(ents) == ents

\* the index of the first entity of that name, 0 standing for None
find_entity(ents, name) ==
  IF \E i \in DOMAIN ents : ents[i].name = name
  THEN CHOOSE i \in DOMAIN ents :
         ents[i].name = name /\ \A j \in DOMAIN ents : ents[j].name = name => i <= j
  ELSE 0

duel_resolve_attack(attacker, defender, roll_a, roll_b, perce_armure, vit_scale_div) ==
  LET vit_term == Over(defender.VIT, vit_scale_div)
      out0 == [hit |-> FALSE, roll_a |-> roll_a, roll_b |-> roll_b,
               perce_armure |-> perce_armure, vit_scale_div |-> vit_scale_div]
  IN  IF Gt(roll_a, roll_b)
      THEN LET base == Plus(Minus(roll_a, roll_b), attacker.STR)
               dmg == Max(Zero, IF perce_armure THEN base ELSE Minus(base, vit_term))
           IN  [attacker |-> attacker,
                defender |-> [defender EXCEPT !.hp = Max(Zero, Minus(defender.hp, dmg))],
                out |-> [out0 EXCEPT !.hit = TRUE] @@
                        [raw |-> [damage |-> dmg], effects |-> <<"inflige", "pv_defender">>]]
      ELSE LET defense == Minus(Plus(Minus(roll_b, roll_a), vit_term), attacker.STR)
           IN  IF Gt(defense, Zero)
               THEN [attacker |-> [attacker EXCEPT !.hp = Max(Zero, Minus(attacker.hp, defense))],
                     defender |-> defender,
                     out |-> out0 @@ [raw |-> [defense_value |-> defense],
                                      effects |-> <<"contrecoup", "pv_attacker">>]]
               ELSE [attacker |-> attacker,
                     defender |-> defender,
                     out |-> out0 @@ [raw |-> [defense_value |-> defense],
                                      effects |-> <<"aucun_degat">>]]

----------------------------------------------------------------------------
(* src/src/variant_interp.py.  A monster's variants are a function from    *)
(* integer levels to MonsterVariant records; an ability line is the pair   *)
(* of its leading "Key:" and the digits that follow it (-1 when the text   *)
(* after the key does not start with digits).                              *)

StatKeys == {"hp_max", "mp_max", "STR", "AGI", "INT", "DEX", "VIT"}

FieldKeys == StatKeys \cup {"base_attack"}

EmptyDict == <<>>

_lerp(a, b, t) == Plus(a, Times(Minus(b, a), t))

\* halves rounded up instead of to the even neighbour
_round_stat_half_up(x) == Float((2 * x.num + x.den) \div (2 * x.den))

\* float(round(x)): Python 3 rounds halves to the even neighbour
_round_stat(x) ==
  LET q == x.num \div x.den
      r == x.num % x.den
  IN  IF 2 * r < x.den THEN Float(q)
      ELSE IF 2 * r > x.den THEN Float(q + 1)
      ELSE IF q % 2 = 0 THEN Float(q) ELSE Float(q + 1)

\* the stats dict key an ability line feeds, "" for any other line
AbilityStatKey(ability) ==
  IF ability.digits < 0 THEN ""
  ELSE CASE ability.key = "HP" -> "hp_max"
         [] ability.key = "MP" -> "mp_max"
         [] ability.key \in {"STR", "AGI", "INT", "DEX", "VIT"} -> ability.key
         [] ability.key = "Attaque de base" -> "base_attack"
         [] OTHER -> ""

RECURSIVE _extract_stats_from_abilities(_)
_extract_stats_from_abilities(abilities) ==
  IF abilities = <<>> THEN [k \in FieldKeys |-> Zero]
  ELSE LET n == Len(abilities)
           before == _extract_stats_from_abilities(SubSeq(abilities, 1, n - 1))
           k == AbilityStatKey(abilities[n])
       IN  IF k = "" THEN before
           ELSE [before EXCEPT ![k] = Float(abilities[n].digits)]

\* extra = getattr(v, "extra", None) or {}
_extract_extra(v) == IF v.extra = None THEN EmptyDict ELSE v.extra

\* float(get(key, 0.0) or 0.0)
FloatOrZero(x) == IF x = None THEN Zero ELSE x

_extract_variant_fields(v) ==
  LET extra == _extract_extra(v)
      abilities == IF "abilities" \in DOMAIN extra THEN extra["abilities"] ELSE <<>>
      base_stats == [k \in FieldKeys |-> FloatOrZero(v[k])]
      ability_stats == _extract_stats_from_abilities(abilities)
  IN  IF (\A k \in StatKeys : base_stats[k] = Zero) /\ abilities # <<>>
      THEN [k \in FieldKeys |->
              IF Gt(ability_stats[k], Zero) THEN ability_stats[k] ELSE base_stats[k]]
      ELSE base_stats

SetMax(S) == CHOOSE x \in S : \A y \in S : y <= x

SetMin(S) == CHOOSE x \in S : \A y \in S : x <= y

\* the outermost known levels taken instead of the closest ones
_bounds_for_level_widest(levels, lvl) ==
  IF lvl \in levels THEN <<lvl, lvl>>
  ELSE <<SetMin(levels), SetMax(levels)>>

_bounds_for_level(levels, lvl) ==
  IF lvl \in levels THEN <<lvl, lvl>>
  ELSE <<SetMax({L \in levels : L < lvl}), SetMin({L \in levels : L > lvl})>>

\* The dict built from one stored variant (the clamp and exact-key branches)
VariantDict(level, v) ==
  LET data == _extract_variant_fields(v)
  IN  [level |-> level, base_attack |-> data["base_attack"], extra |-> _extract_extra(v)]
      @@ [k \in StatKeys |-> _round_stat(data[k])]

\* the level reported when lvl <= levels[0]
ClampLowLevel(levels, lvl) == SetMin(levels)

\* the requested level reported instead of the boundary's
ClampHighLevelRequested(levels, lvl) == lvl

\* the level reported when lvl >= levels[-1]
ClampHighLevel(levels, lvl) == SetMax(levels)

\* a tie at one half going to the lower bound
PicksLowerExtraOnTie(t) == Ge(Frac(1, 2), t)

\* line 281: extra0 if t < 0.5 else extra1
PicksLowerExtra(t) == Gt(Frac(1, 2), t)

\* variants non-empty: lines 215-283
VariantAt(variants, lvl) ==
  LET levels == DOMAIN variants
      lo == SetMin(levels)
      hi == SetMax(levels)
  IN  IF lvl <= lo THEN VariantDict(ClampLowLevel(levels, lvl), variants[lo])
      ELSE IF lvl >= hi THEN VariantDict(ClampHighLevel(levels, lvl), variants[hi])
      ELSE LET b == _bounds_for_level(levels, lvl)
               l0 == b[1]
               l1 == b[2]
           IN  IF l0 = l1 THEN VariantDict(lvl, variants[l0])
               ELSE LET d0 == _extract_variant_fields(variants[l0])
                        d1 == _extract_variant_fields(variants[l1])
                        t == Frac(lvl - l0, l1 - l0)
                    IN  [level |-> lvl,
                         base_attack |-> _lerp(d0["base_attack"], d1["base_attack"], t),
                         extra |-> IF PicksLowerExtra(t) THEN _extract_extra(variants[l0])
                                   ELSE _extract_extra(variants[l1])]
                        @@ [k \in StatKeys |-> _round_stat(_lerp(d0[k], d1[k], t))]

\* A level range is the sequence of the fields of the string split at "-",
\* <<>> standing for None and for the empty string; a field is
\* [int |-> its value when int() parses it, else -1,
\*  first |-> the first run of digits in it, else -1].
FirstNumber(fields) ==
  IF \E i \in DOMAIN fields : fields[i].first >= 0
  THEN fields[CHOOSE i \in DOMAIN fields :
                fields[i].first >= 0 /\ \A j \in DOMAIN fields : fields[j].first >= 0 => i <= j].first
  ELSE -1

\* the lower end of a dashed range taken instead of its midpoint
_extract_level_from_range_lower(level_range) ==
  IF level_range = <<>> THEN 1
  ELSE IF FirstNumber(level_range) >= 0 THEN FirstNumber(level_range) ELSE 1

_extract_level_from_range(level_range) ==
  IF level_range = <<>> THEN 1
  ELSE IF Len(level_range) = 2 /\ level_range[1].int >= 0 /\ level_range[2].int >= 0
       THEN (level_range[1].int + level_range[2].int) \div 2
       ELSE IF FirstNumber(level_range) >= 0 THEN FirstNumber(level_range) ELSE 1

\* "if not variants": None and {} are both the empty function here
HasVariants(monster) == DOMAIN monster.variants # {}

interpolated_variant(monster, lvl) ==
  IF ~HasVariants(monster)
  THEN IF monster.abilities # <<>>
       THEN LET stats == _extract_stats_from_abilities(monster.abilities)
                monster_level == _extract_level_from_range(monster.level_range)
                level_factor == IF monster_level > 0 THEN Frac(lvl, monster_level) ELSE Float(1)
            IN  [level |-> lvl,
                 base_attack |-> Times(stats["base_attack"], level_factor),
                 extra |-> [abilities |-> monster.abilities]]
                @@ [k \in StatKeys |-> _round_stat(Times(stats[k], level_factor))]
       ELSE None
  ELSE VariantAt(monster.variants, lvl)

----------------------------------------------------------------------------
(* src/src/models.py: EncounterState.  Optional strings are "" for None,   *)
(* optional lists <<>> for None.                                           *)

alive_participants(ps) == SelectSeq(ps, LAMBDA p : Gt(p.runtime.hp, Zero))

players_alive(ps) == SelectSeq(alive_participants(ps), LAMBDA p : p.side = "player")

mobs_alive(ps) == SelectSeq(alive_participants(ps), LAMBDA p : p.side = "mob")

_turn_cycle(ps) == players_alive(ps) \o mobs_alive(ps)

\* None when nobody is alive
current_actor(ps, ti) ==
  LET cycle == _turn_cycle(ps)
  IN  IF cycle = <<>> THEN None ELSE cycle[(ti % Len(cycle)) + 1]

recompute_round(ps, ti) ==
  LET cycle == _turn_cycle(ps)
  IN  IF cycle = <<>> THEN 1 ELSE (ti \div Len(cycle)) + 1

\* position in the participant list of the participant with that id
IndexOfId(ps, id) == CHOOSE i \in DOMAIN ps : ps[i].id = id

----------------------------------------------------------------------------
(* src/src/ui.py: building runtime entities *)

_player_to_runtime(p0) ==
  LET p == ensure_current(p0)
  IN  [name |-> p.name, kind |-> "PJ", level |-> p.level,
       hp_max |-> p.hp_max, mp_max |-> p.mp_max,
       STR |-> p.STR, AGI |-> p.AGI, INT |-> p.INT, DEX |-> p.DEX, VIT |-> p.VIT,
       hp |-> p.hp, mp |-> p.mp,
       base_attack |-> None, zone |-> "", drops |-> <<>>, abilities |-> <<>>,
       extra |-> EmptyDict]

RuntimeName(m, lvl) == m.name \o " (Lvl " \o ToString(lvl) \o ")"

MonsterKind(m) == IF m.rarity = "boss" THEN "Boss" ELSE "Mob"

_monster_to_runtime(m, lvl) ==
  LET v == interpolated_variant(m, lvl)
  IN  IF v = None
      THEN [name |-> RuntimeName(m, lvl), kind |-> "Mob", level |-> lvl,
            hp_max |-> Zero, mp_max |-> Zero,
            STR |-> Zero, AGI |-> Zero, INT |-> Zero, DEX |-> Zero, VIT |-> Zero,
            hp |-> Zero, mp |-> Zero,
            base_attack |-> None, zone |-> "", drops |-> <<>>, abilities |-> <<>>,
            extra |-> EmptyDict]
      ELSE [name |-> RuntimeName(m, lvl), kind |-> MonsterKind(m), level |-> lvl,
            hp_max |-> v.hp_max, mp_max |-> v.mp_max,
            STR |-> v.STR, AGI |-> v.AGI, INT |-> v.INT, DEX |-> v.DEX, VIT |-> v.VIT,
            hp |-> v.hp_max, mp |-> v.mp_max,
            base_attack |-> v.base_attack, zone |-> m.zone, drops |-> m.drops,
            abilities |-> m.abilities, extra |-> v.extra]

_monster_to_runtime_manual(m, lvl, stats, base_attack) ==
  [name |-> RuntimeName(m, lvl), kind |-> MonsterKind(m), level |-> lvl,
   hp_max |-> stats.hp_max, mp_max |-> stats.mp_max,
   STR |-> stats.STR, AGI |-> stats.AGI, INT |-> stats.INT, DEX |-> stats.DEX,
   VIT |-> stats.VIT,
   hp |-> stats.hp_max, mp |-> stats.mp_max,
   base_attack |-> base_attack, zone |-> m.zone, drops |-> m.drops,
   abilities |-> m.abilities, extra |-> EmptyDict]

----------------------------------------------------------------------------
(* Bounds and input sets *)

\* resolutions explored on the duel screen; each one starts from the roster
\* file, whatever was resolved before
MaxExchanges == 1

\* participants ever added to the encounter (ids are never reused)
MaxIds == 2

\* cap on the turn counter, and so on the attacks of one encounter
MaxTurns == 2

\* (roll_a, roll_b) pairs typed into the number inputs
RollPairs == { <<15, 10>>, <<16, 10>>, <<10, 10>>, <<5, 12>> }

\* "Diviseur VIT" values
VitDivs == {1, 100}

MonsterVariant(level, hp_max, mp_max, STR, AGI, INT, DEX, VIT, base_attack, extra) ==
  [level |-> level, hp_max |-> hp_max, mp_max |-> mp_max,
   STR |-> STR, AGI |-> AGI, INT |-> INT, DEX |-> DEX, VIT |-> VIT,
   base_attack |-> base_attack, extra |-> extra]

Monster(name, level_range, abilities, variants) ==
  [name |-> name, palier |-> "", level_range |-> level_range, rarity |-> "",
   zone |-> "", drops |-> <<>>, abilities |-> abilities, variants |-> variants]

\* the players of data/players.json
PlayersRoster ==
  { [name |-> "Guerrier", level |-> 10, hp_max |-> Float(300), mp_max |-> Float(50),
     STR |-> Float(35), AGI |-> Float(12), INT |-> Float(5), DEX |-> Float(10),
     VIT |-> Float(80), hp |-> None, mp |-> None] }

\* the monsters of the loaded compendium
CompendiumMonsters ==
  { Monster("Lapin", <<>>, <<>>,
            (1 :> MonsterVariant(1, Float(10), Float(5), Float(3), Float(8), Float(2),
                                 Float(5), Float(2), None, None))
         @@ (2 :> MonsterVariant(2, Float(30), Float(15), Float(9), Float(10), Float(4),
                                 Float(7), Float(6), Float(5), None))),
    Monster("Slime", <<>>, <<>>, <<>>) }

\* the defaults of the manual-stats form
ManualStats ==
  [hp_max |-> Float(50), mp_max |-> Float(10), STR |-> Float(5), AGI |-> Float(5),
   INT |-> Float(5), DEX |-> Float(5), VIT |-> Float(5)]

----------------------------------------------------------------------------
VARIABLES
  app,           \* which program runs: "duel" (src/app.py) or "encounter" (src/src/ui.py)
  disk,          \* app.py: the entities of data/entities.json
  entities,      \* app.py: the roster in memory at the end of the last script run
  last_result,   \* app.py: st.session_state.last_result
  combat_log,    \* app.py: the number of lines of st.session_state.combat_log
  participants,  \* EncounterState.participants
  turn_index,    \* EncounterState.turn_index
  round,         \* EncounterState.round
  log,           \* EncounterState.log, kept as its length and its last entry
  next_id,       \* the next fresh participant id (uuid4 never repeats)
  vit_div,       \* the VIT divisor setting handed to the action panel
  call,          \* history: the site and the two entity identities of the last resolver call
  ncalls,        \* history: number of resolver calls so far
  monster,       \* variant_interp: the monster queried
  lvl,           \* variant_interp: the level queried
  variant,       \* variant_interp: the result of the last query
  safe_name,     \* md_parser: the name handed to _safe_key
  safe_existing, \* md_parser: the mapping handed to _safe_key
  safe_key,      \* md_parser: the key _safe_key returned, "" before the call
  md_text,       \* md_parser: the lines of the bestiaire document
  skill_texts,   \* md_parser: the lines of each skill document, in the given order
  compendium,    \* md_parser: the Compendium built from the documents
  reparsed,      \* md_parser: the monsters of a second parse of the same text
  reloaded       \* models: the Compendium read back from its JSON form

vars == <<app, disk, entities, last_result, combat_log, participants, turn_index, round, log,
          next_id, vit_div, call, ncalls, monster, lvl, variant,
          safe_name, safe_existing, safe_key, md_text, skill_texts, compendium, reparsed,
          reloaded>>

duelVars == <<disk, entities, last_result, combat_log>>

encVars == <<participants, turn_index, round, log, next_id, vit_div>>

interpVars == <<monster, lvl, variant>>

keyVars == <<safe_name, safe_existing, safe_key>>

mdVars == <<md_text, skill_texts, compendium, reparsed, reloaded>>

\* no markdown document has been read
MdIdle ==
  /\ safe_name = ""
  /\ safe_existing = <<>>
  /\ safe_key = ""
  /\ md_text = <<>>
  /\ skill_texts = <<>>
  /\ compendium = None
  /\ reparsed = None
  /\ reloaded = None

EmptyLog == [len |-> 0, last |-> None]

----------------------------------------------------------------------------
(* src/app.py: one action per button of the duel screen *)

Names(ents) == {ents[i].name : i \in DOMAIN ents}

\* the two entities after a resolver call, written to their places in a list;
\* one object passed twice is one object afterwards
WriteBack(list, ia, id, r) ==
  IF ia = id
  THEN [list EXCEPT ![ia] = IF r.out.hit THEN r.defender ELSE r.attacker]
  ELSE [list EXCEPT ![ia] = r.attacker, ![id] = r.defender]

\* the guard left out
DuelRefusesNever(attacker, defender) == FALSE

\* "if attacker.name == defender.name: st.error(...)": the resolver is not called
DuelRefuses(attacker, defender) == attacker.name = defender.name

\* "Résoudre l'attaque"
DuelResolve ==
  /\ app = "duel"
  /\ ncalls < MaxExchanges
  /\ \E an \in Names(disk), dn \in Names(disk), rp \in RollPairs,
        perce_armure \in BOOLEAN, vit_scale_div \in VitDivs :
       LET ents == load_entities(disk)
           ia == find_entity(ents, an)
           id == find_entity(ents, dn)
           r == duel_resolve_attack(ents[ia], ents[id], Float(rp[1]), Float(rp[2]),
                                    perce_armure, Float(vit_scale_div))
       IN  IF DuelRefuses(ents[ia], ents[id])
           THEN /\ entities' = ents
                /\ UNCHANGED <<last_result, combat_log, call, ncalls>>
           ELSE /\ entities' = WriteBack(ents, ia, id, r)
                /\ last_result' = r.out
                /\ combat_log' = combat_log + Len(r.out.effects)
                /\ call' = [site |-> "duel", attacker |-> ia, defender |-> id]
                /\ ncalls' = ncalls + 1
  /\ UNCHANGED <<app, keyVars, mdVars, disk, encVars, interpVars>>

\* "Reset PV/PM (tous)": resets the roster in memory, then st.rerun() reloads the file
DuelResetHp ==
  /\ app = "duel"
  /\ entities' = load_entities(disk)
  /\ UNCHANGED <<app, keyVars, mdVars, disk, last_result, combat_log, call, ncalls, encVars, interpVars>>

\* "Sauvegarder base (PV/PM inclus)": writes the roster just loaded
DuelSave ==
  /\ app = "duel"
  /\ entities' = load_entities(disk)
  /\ disk' = save_entities(load_entities(disk))
  /\ UNCHANGED <<app, keyVars, mdVars, last_result, combat_log, call, ncalls, encVars, interpVars>>

\* "Vider le log", shown when the log is not empty; st.rerun() reloads the file
DuelClearLog ==
  /\ app = "duel"
  /\ combat_log > 0
  /\ combat_log' = 0
  /\ entities' = load_entities(disk)
  /\ UNCHANGED <<app, keyVars, mdVars, disk, last_result, call, ncalls, encVars, interpVars>>

\* roster size explored with the creation form
MaxEntities == 5

\* names typed into the creation form: one already in the roster, one new
FormNames == {"Lapin", "Nouveau Mob"}

\* the creation form: append, save, st.rerun()
DuelAddEntity ==
  /\ app = "duel"
  /\ Len(disk) < MaxEntities
  /\ \E n \in FormNames :
       LET ents == load_entities(disk)
           ent == [EntityDict(n, "Mob", 1, 50, 10, 5, 5, 5, 5, 5)
                     EXCEPT !.hp = Float(50), !.mp = Float(10)]
       IN  /\ disk' = save_entities(Append(ents, ent))
           /\ entities' = load_entities(save_entities(Append(ents, ent)))
  /\ UNCHANGED <<app, keyVars, mdVars, last_result, combat_log, call, ncalls, encVars, interpVars>>

----------------------------------------------------------------------------
(* src/src/ui.py: one action per button of the encounter screens *)

NewParticipant(side, runtime) == [id |-> next_id, side |-> side, runtime |-> runtime]

AddParticipant(side, runtime) ==
  /\ next_id <= MaxIds
  /\ participants' = Append(participants, NewParticipant(side, runtime))
  /\ round' = recompute_round(Append(participants, NewParticipant(side, runtime)), turn_index)
  /\ next_id' = next_id + 1
  /\ UNCHANGED <<turn_index, log, vit_div>>

\* "Ajouter PJ à l'encounter"
EncAddPlayer ==
  /\ app = "encounter"
  /\ \E p \in PlayersRoster : AddParticipant("player", _player_to_runtime(p))
  /\ UNCHANGED <<app, keyVars, mdVars, duelVars, call, ncalls, interpVars>>

\* a level 1 offered for a monster without variants too
MobLevelsAlways(m) ==
  IF HasVariants(m) THEN SetMin(DOMAIN m.variants) .. SetMax(DOMAIN m.variants)
  ELSE {1}

\* the levels the builder offers for a compendium monster: the slider between
\* its lowest and highest known levels (the one level when there is only
\* one), and nothing when it has no variants (ui.py 382-403)
MobLevels(m) ==
  IF HasVariants(m) THEN SetMin(DOMAIN m.variants) .. SetMax(DOMAIN m.variants)
  ELSE {}

\* "Ajouter Mob à l'encounter": the level comes from a slider over the known levels
EncAddMob ==
  /\ app = "encounter"
  /\ \E m \in CompendiumMonsters :
       \E l \in MobLevels(m) : AddParticipant("mob", _monster_to_runtime(m, l))
  /\ UNCHANGED <<app, keyVars, mdVars, duelVars, call, ncalls, interpVars>>

\* "Ajouter Mob (manuel) à l'encounter": a monster without variants, stats typed in
EncAddMobManual ==
  /\ app = "encounter"
  /\ \E m \in CompendiumMonsters :
       /\ ~HasVariants(m)
       /\ AddParticipant("mob", _monster_to_runtime_manual(m, 1, ManualStats, None))
  /\ UNCHANGED <<app, keyVars, mdVars, duelVars, call, ncalls, interpVars>>

\* "Reset encounter (vide)"
EncReset ==
  /\ app = "encounter"
  /\ participants # <<>>
  /\ participants' = <<>>
  /\ turn_index' = 0
  /\ round' = recompute_round(<<>>, 0)
  /\ log' = EmptyLog
  /\ UNCHANGED <<app, keyVars, mdVars, duelVars, next_id, vit_div, call, ncalls, interpVars>>

\* "Supprimer les morts (HP<=0)"
EncPruneDead ==
  /\ app = "encounter"
  /\ participants # <<>>
  /\ participants' = alive_participants(participants)
  /\ round' = recompute_round(alive_participants(participants), turn_index)
  /\ UNCHANGED <<app, keyVars, mdVars, duelVars, turn_index, log, next_id, vit_div, call, ncalls, interpVars>>

\* "Vider log (attention)"
EncClearLog ==
  /\ app = "encounter"
  /\ log.len > 0
  /\ log' = EmptyLog
  /\ UNCHANGED <<app, keyVars, mdVars, duelVars, participants, turn_index, round, next_id, vit_div, call,
                 ncalls, interpVars>>

\* everyone but the actor offered as a target, the dead too
TargetsWithDead(ps, actor) == SelectSeq(ps, LAMBDA p : p.id # actor.id)

\* the living participants offered as targets: everyone but the actor
Targets(ps, actor) == SelectSeq(alive_participants(ps), LAMBDA p : p.id # actor.id)

\* the attack button of render_action_panel, resolve_fn being rules.resolve_attack
EncAttack ==
  /\ app = "encounter"
  /\ turn_index < MaxTurns
  /\ current_actor(participants, turn_index) # None
  /\ LET actor == current_actor(participants, turn_index)
         targets == Targets(participants, actor)
     IN  /\ targets # <<>>
         /\ \E target_idx \in DOMAIN targets, attack_type \in AttackTypes,
               perce_armure \in BOOLEAN, rp \in RollPairs :
              LET target == targets[target_idx]
                  r == resolve_attack(actor.runtime, target.runtime, Float(rp[1]),
                                      Float(rp[2]), attack_type, perce_armure, Float(vit_div))
                  ia == IndexOfId(participants, actor.id)
                  it == IndexOfId(participants, target.id)
                  ps1 == IF ia = it
                         THEN [participants EXCEPT ![ia].runtime =
                                 IF r.out.hit THEN r.defender ELSE r.attacker]
                         ELSE [participants EXCEPT ![ia].runtime = r.attacker,
                                                   ![it].runtime = r.defender]
              IN  /\ participants' = ps1
                  /\ log' = [len |-> log.len + 1,
                             last |-> [round |-> round, turn_index |-> turn_index,
                                       actor_id |-> actor.id, actor_name |-> actor.runtime.name,
                                       target_id |-> target.id,
                                       target_name |-> target.runtime.name,
                                       action_type |-> "basic_attack",
                                       roll_a |-> Float(rp[1]), roll_b |-> Float(rp[2]),
                                       perce_armure |-> perce_armure,
                                       vit_div |-> Float(vit_div), result |-> r.out]]
                  /\ turn_index' = turn_index + 1
                  /\ round' = recompute_round(ps1, turn_index + 1)
                  /\ call' = [site |-> "panel", attacker |-> actor.id, defender |-> target.id]
                  /\ ncalls' = ncalls + 1
  /\ UNCHANGED <<app, keyVars, mdVars, duelVars, next_id, vit_div, interpVars>>

\* "Passer le tour"
EncPassTurn ==
  /\ app = "encounter"
  /\ turn_index < MaxTurns
  /\ current_actor(participants, turn_index) # None
  /\ Targets(participants, current_actor(participants, turn_index)) # <<>>
  /\ turn_index' = turn_index + 1
  /\ round' = recompute_round(participants, turn_index + 1)
  /\ UNCHANGED <<app, keyVars, mdVars, duelVars, participants, log, next_id, vit_div, call, ncalls,
                 interpVars>>

----------------------------------------------------------------------------
(* The two combat programs *)

NoMonster == Monster("", <<>>, <<>>, <<>>)

\* the program started is the duel screen, its roster file holding the default
\* entities, or the encounter screens, with an empty encounter
Init ==
  /\ \/ /\ app = "duel"
        /\ disk = default_entities
        /\ entities = load_entities(default_entities)
        /\ vit_div = 100
     \/ /\ app = "encounter"
        /\ disk = <<>>
        /\ entities = <<>>
        /\ vit_div \in VitDivs
  /\ last_result = None
  /\ combat_log = 0
  /\ participants = <<>>
  /\ turn_index = 0
  /\ round = 1
  /\ log = EmptyLog
  /\ next_id = 1
  /\ call = None
  /\ ncalls = 0
  /\ monster = NoMonster
  /\ lvl = 0
  /\ variant = None
  /\ MdIdle

Next ==
  \/ DuelResolve
  \/ DuelResetHp
  \/ DuelSave
  \/ DuelClearLog
  \/ DuelAddEntity
  \/ EncAddPlayer
  \/ EncAddMob
  \/ EncAddMobManual
  \/ EncReset
  \/ EncPruneDead
  \/ EncClearLog
  \/ EncAttack
  \/ EncPassTurn

Spec == Init /\ [][Next]_vars

----------------------------------------------------------------------------
(* src/src/variant_interp.py, queried over a family of monsters *)

\* largest level a stored variant carries
MaxLevel == 5

\* the shapes of a stored variant: whole stats without base attack or extra;
\* whole stats with a fractional base attack and an extra dict; fractional
\* stats; every stat zero, the numbers being in the ability lines of extra
Profiles == {"plain", "based", "frac", "zero"}

AbilityLines(l) ==
  << [key |-> "HP", digits |-> 40 + l], [key |-> "STR", digits |-> 6],
     [key |-> "Attaque de base", digits |-> 7], [key |-> "Morsure", digits |-> -1] >>

ProfileVariant(l, p) ==
  CASE p = "plain" ->
         MonsterVariant(l, Float(10 * l), Float(5 * l), Float(3 * l), Float(2 * l + 1),
                        Float(l), Float(4), Float(2 * l), None, None)
    [] p = "based" ->
         MonsterVariant(l, Float(12 * l), Float(5), Float(4 * l), Float(l + 2),
                        Float(3), Float(l), Float(7), Frac(5 * l, 2), [note |-> l])
    [] p = "frac" ->
         MonsterVariant(l, Frac(20 * l + 1, 2), Frac(4 * l + 1, 4), Frac(2 * l + 1, 2),
                        Frac(4 * l + 3, 4), Frac(7, 2), Frac(5, 2), Frac(l, 3),
                        Frac(1, 4), None)
    [] OTHER ->
         MonsterVariant(l, Zero, Zero, Zero, Zero, Zero, Zero, Zero, None,
                        [abilities |-> AbilityLines(l)])

\* monsters with stored variants at any non-empty set of levels, of any shape
VariantMonsters ==
  { Monster("Lapin", <<>>, <<>>, [l \in S |-> ProfileVariant(l, f[l])]) :
      <<S, f>> \in { <<S, f>> \in (SUBSET (1 .. MaxLevel)) \X [1 .. MaxLevel -> Profiles] :
                       S # {} /\ \A l \in (1 .. MaxLevel) \ S : f[l] = "plain" } }

\* a field of a level range that int() parses, and one that it does not but
\* that holds digits ("Niv 2"), and one without digits ("?")
IntField(n) == [int |-> n, first |-> n]

TextField(n) == [int |-> -1, first |-> n]

\* the level ranges met: None, "2-4", "1-4", "3", "0", "Niv 2-5", "?",
\* "1-2-3"
LevelRanges ==
  { <<>>,
    <<IntField(2), IntField(4)>>,
    <<IntField(1), IntField(4)>>,
    <<IntField(3)>>,
    <<IntField(0)>>,
    <<TextField(2), IntField(5)>>,
    <<TextField(-1)>>,
    <<IntField(1), IntField(2), IntField(3)>> }

\* monsters without variants: bare, or with ability lines (encoding stats or
\* not) under any of the level ranges
BareMonsters ==
  { Monster("Slime", <<>>, <<>>, <<>>) }
  \cup { Monster("Slime", r, AbilityLines(1), <<>>) : r \in LevelRanges }
  \cup { Monster("Slime", <<>>, <<[key |-> "Morsure", digits |-> -1]>>, <<>>) }

InterpMonsters == VariantMonsters \cup BareMonsters

InitInterp ==
  /\ app = "interp"
  /\ disk = <<>>
  /\ entities = <<>>
  /\ vit_div = 100
  /\ last_result = None
  /\ combat_log = 0
  /\ participants = <<>>
  /\ turn_index = 0
  /\ round = 1
  /\ log = EmptyLog
  /\ next_id = 1
  /\ call = None
  /\ ncalls = 0
  /\ monster \in InterpMonsters
  /\ lvl = 0
  /\ variant = None
  /\ MdIdle

\* one call interpolated_variant(monster, lvl)
Interpolate ==
  /\ app = "interp"
  /\ \E l \in 0 .. MaxLevel + 1 :
       /\ lvl' = l
       /\ variant' = interpolated_variant(monster, l)
  /\ UNCHANGED <<app, keyVars, mdVars, duelVars, encVars, call, ncalls, monster>>

NextInterp == Interpolate

SpecInterp == InitInterp /\ [][NextInterp]_vars

----------------------------------------------------------------------------
(* Reading one resolver call off a step.  The duel screen resolves on the  *)
(* roster it has just reloaded from the file; the action panel resolves on *)
(* the runtime entities of the encounter's participants.                   *)

\* the step called the resolver
Resolved == ncalls' = ncalls + 1

\* the entities the call could reach, before and after it
Before ==
  IF app = "duel" THEN load_entities(disk)
  ELSE [i \in DOMAIN participants |-> participants[i].runtime]

After ==
  IF app = "duel" THEN entities'
  ELSE [i \in DOMAIN participants' |-> participants'[i].runtime]

AttackerAt == IF app = "duel" THEN call'.attacker ELSE IndexOfId(participants, call'.attacker)

DefenderAt == IF app = "duel" THEN call'.defender ELSE IndexOfId(participants, call'.defender)

\* the dict the call returned
Outcome == IF app = "duel" THEN last_result' ELSE log'.last.result

\* app.py's resolver has the physical exchange only
Kind == IF app = "duel" THEN "phys" ELSE Outcome.attack_type

\* the same dict, read in the state the call left behind
LastOutcome ==
  IF app = "duel" THEN last_result
  ELSE IF log.last = None THEN None ELSE log.last.result

\* the participant of that id, when still in the encounter
HasParticipant(id) == \E i \in DOMAIN participants : participants[i].id = id

ParticipantOf(id) == participants[IndexOfId(participants, id)].runtime

----------------------------------------------------------------------------
(* C1 *)

\* C1: whatever resolver calls were made, with whatever rolls, attack type,
\* armor-pierce flag, divisor and pairing, the hp of every entity of the duel
\* roster and of every participant of the encounter is >= 0.
C1_HpNeverNegative ==
  /\ \A i \in DOMAIN entities : Ge(entities[i].hp, Zero)
  /\ \A i \in DOMAIN participants : Ge(participants[i].runtime.hp, Zero)

\* a hit whose damage exceeded all the hp the defender had left it at exactly 0
C1_Witness ==
  /\ app = "encounter"
  /\ LastOutcome # None
  /\ LastOutcome.hit
  /\ HasParticipant(log.last.target_id)
  /\ ParticipantOf(log.last.target_id).hp = Zero
  /\ Gt(LastOutcome.raw.damage, ParticipantOf(log.last.target_id).hp_max)

----------------------------------------------------------------------------
(* C2 *)

\* C2: a resolver call hits exactly when roll_a > roll_b; when the rolls are
\* equal, for every attack type, the outcome has hit = false, records the
\* defence value and leaves the defender's hp as it was.
C2_TieDefenderHolds ==
  [][Resolved =>
       /\ Outcome.hit <=> Gt(Outcome.roll_a, Outcome.roll_b)
       /\ Outcome.roll_a = Outcome.roll_b =>
            /\ ~Outcome.hit
            /\ "defense_value" \in DOMAIN Outcome.raw
            /\ After[DefenderAt].hp = Before[DefenderAt].hp]_vars

\* a tied magic exchange was resolved by the encounter's resolver as a defence
C2_Witness ==
  /\ app = "encounter"
  /\ LastOutcome # None
  /\ LastOutcome.roll_a = LastOutcome.roll_b
  /\ LastOutcome.attack_type = "magic"
  /\ ~LastOutcome.hit

----------------------------------------------------------------------------
(* C3 *)

\* the entities a resolved step was called on, as they were before the call
AttackerBefore == Before[AttackerAt]

DefenderBefore == Before[DefenderAt]

RollDiff == Minus(Outcome.roll_a, Outcome.roll_b)

\* a hit of the default exchange: physical, no armor pierce
DefaultHit == Resolved /\ Outcome.hit /\ Kind = "phys" /\ ~Outcome.perce_armure

\* the rolls and stats of the worked example
ExampleExchange ==
  /\ AttackerBefore.STR = Float(35)
  /\ DefenderBefore.VIT = Float(80)
  /\ Outcome.vit_scale_div = Float(100)
  /\ Outcome.roll_a = Float(15)
  /\ Outcome.roll_b = Float(10)

\* C3 as stated: on a default physical hit of rules.py's resolver the damage
\* is max(0, (roll_a - roll_b) + attacker.STR - defender.VIT / vit_divisor),
\* the outcome records it and the defender's hp drops by it, floored at 0;
\* in the worked example the damage is 39.2.
C3_Original ==
  [][DefaultHit /\ app = "encounter" =>
       LET damage == Max(Zero, Minus(Plus(RollDiff, AttackerBefore.STR),
                                     Over(DefenderBefore.VIT, Outcome.vit_scale_div)))
       IN  /\ Outcome.raw.damage = damage
           /\ After[DefenderAt].hp = Max(Zero, Minus(DefenderBefore.hp, damage))
           /\ ExampleExchange => Outcome.raw.damage = Frac(392, 10)]_vars

\* the defence term of a physical exchange: VIT / divisor in app.py,
\* (VIT + 0.2 * defender.STR) / divisor in rules.py
PhysDefenseTerm ==
  IF app = "duel" THEN Over(DefenderBefore.VIT, Outcome.vit_scale_div)
  ELSE Over(Plus(DefenderBefore.VIT, Over(DefenderBefore.STR, Float(5))),
            Outcome.vit_scale_div)

\* C3 amended: on a default physical hit the damage is
\* max(0, (roll_a - roll_b) + attacker.STR - defence term), the defence term
\* being (defender.VIT + 0.2 * defender.STR) / vit_divisor in rules.py and
\* defender.VIT / vit_divisor in app.py; the outcome records that damage and
\* the defender's hp becomes max(0, hp - damage); in the worked example the
\* damage is 39.2 in app.py and 39.2 - defender.STR / 500 in rules.py.
C3_PhysicalHitDamage ==
  [][DefaultHit =>
       LET damage == Max(Zero, Minus(Plus(RollDiff, AttackerBefore.STR), PhysDefenseTerm))
       IN  /\ Outcome.raw.damage = damage
           /\ After[DefenderAt].hp = Max(Zero, Minus(DefenderBefore.hp, damage))
           /\ ExampleExchange =>
                Outcome.raw.damage =
                  IF app = "duel" THEN Frac(392, 10)
                  ELSE Minus(Frac(392, 10), Over(DefenderBefore.STR, Float(500)))]_vars

\* the worked example resolved by rules.py against a defender of STR 35:
\* the damage is 39.13 and the defender is left with 260.87 of 300 hp
C3_Witness ==
  /\ app = "encounter"
  /\ LastOutcome # None
  /\ LastOutcome.hit
  /\ LastOutcome.attack_type = "phys"
  /\ ~LastOutcome.perce_armure
  /\ LastOutcome.roll_a = Float(15)
  /\ LastOutcome.roll_b = Float(10)
  /\ LastOutcome.vit_scale_div = Float(100)
  /\ LastOutcome.atk_stat = Float(35)
  /\ LastOutcome.raw.damage = Frac(3913, 100)
  /\ HasParticipant(log.last.target_id)
  /\ ParticipantOf(log.last.target_id).VIT = Float(80)
  /\ ParticipantOf(log.last.target_id).STR = Float(35)
  /\ ParticipantOf(log.last.target_id).hp = Frac(26087, 100)

----------------------------------------------------------------------------
(* C4 *)

\* the attacker's stat for the kind of the exchange
AttackStat ==
  CASE Kind = "phys"   -> AttackerBefore.STR
    [] Kind = "magic"  -> AttackerBefore.INT
    [] Kind = "ranged" -> AttackerBefore.DEX

\* the defender's stat that rules.py adds, at one fifth, to VIT
SecondaryStat ==
  CASE Kind = "phys"   -> DefenderBefore.STR
    [] Kind = "magic"  -> DefenderBefore.INT
    [] Kind = "ranged" -> DefenderBefore.AGI

\* the defence term of each resolver
DefenseTerm ==
  IF app = "duel" THEN Over(DefenderBefore.VIT, Outcome.vit_scale_div)
  ELSE Over(Plus(DefenderBefore.VIT, Over(SecondaryStat, Float(5))), Outcome.vit_scale_div)

PiercingHit == Resolved /\ Outcome.hit /\ Outcome.perce_armure

\* C4 as stated: on a hit with armor pierce the damage applied is
\* max(0, (roll_a - roll_b) + attack_stat), whatever the defender's VIT and
\* the divisor.
C4_Original ==
  [][PiercingHit =>
       LET damage == Max(Zero, Plus(RollDiff, AttackStat))
       IN  /\ Outcome.raw.damage = damage
           /\ After[DefenderAt].hp = Max(Zero, Minus(DefenderBefore.hp, damage))]_vars

\* the multiplier rules.py applies to (roll_a - roll_b) + attack_stat
KindMultiplier ==
  CASE Kind = "phys"   -> Float(1)
    [] Kind = "magic"  -> IF Gt(Outcome.roll_a, Float(15)) THEN Frac(6, 5) ELSE Frac(9, 10)
    [] Kind = "ranged" -> Frac(19, 20)

\* C4 amended: on a hit with armor pierce, app.py's resolver subtracts nothing
\* of the defence: damage = max(0, (roll_a - roll_b) + STR); rules.py's
\* resolver still subtracts 30% of the defence term:
\* damage = max(0, ((roll_a - roll_b) + attack_stat) * m - 0.3 * defence term),
\* with m = 1 for phys, 1.2 for magic when roll_a > 15 and 0.9 otherwise,
\* 0.95 for ranged, so that the damage depends on the defender's VIT and on
\* the divisor.  The defender's hp becomes max(0, hp - damage).
C4_PiercingHitDamage ==
  [][PiercingHit =>
       LET damage ==
             IF app = "duel" THEN Max(Zero, Plus(RollDiff, AttackStat))
             ELSE Max(Zero, Minus(Times(Plus(RollDiff, AttackStat), KindMultiplier),
                                  Times(Frac(3, 10), DefenseTerm)))
       IN  /\ Outcome.raw.damage = damage
           /\ After[DefenderAt].hp = Max(Zero, Minus(DefenderBefore.hp, damage))]_vars

\* a piercing magic hit on a roll above 15 resolved by rules.py: the damage is
\* positive and below 1.2 * ((roll_a - roll_b) + INT), the defence having
\* taken its share
C4_Witness ==
  /\ app = "encounter"
  /\ LastOutcome # None
  /\ LastOutcome.hit
  /\ LastOutcome.perce_armure
  /\ LastOutcome.attack_type = "magic"
  /\ Gt(LastOutcome.roll_a, Float(15))
  /\ Gt(LastOutcome.raw.damage, Zero)
  /\ Gt(Times(Plus(Minus(LastOutcome.roll_a, LastOutcome.roll_b), LastOutcome.atk_stat),
              Frac(6, 5)),
        LastOutcome.raw.damage)

----------------------------------------------------------------------------
(* C5 *)

\* counter = (roll_b - roll_a) + defence term - attack_stat
Counter == Minus(Plus(Minus(Outcome.roll_b, Outcome.roll_a), DefenseTerm), AttackStat)

\* the defence held and the counter is positive
CounteredDefense == Resolved /\ ~Gt(Outcome.roll_a, Outcome.roll_b) /\ Gt(Counter, Zero)

\* C5 as stated: when roll_a <= roll_b and the counter is > 0, the attacker's
\* hp becomes max(0, hp - counter) for every attack kind.
C5_Original ==
  [][CounteredDefense =>
       After[AttackerAt].hp = Max(Zero, Minus(AttackerBefore.hp, Counter))]_vars

\* the share of the counter the attacker takes
CounterShare ==
  CASE Kind = "phys"   -> Float(1)
    [] Kind = "magic"  -> Frac(7, 10)
    [] Kind = "ranged" -> Frac(1, 2)

\* C5 amended: when roll_a <= roll_b and the counter is > 0, the outcome
\* records the counter as its defence value and the attacker's hp becomes
\* max(0, hp - f * counter), with f = 1 for a physical attack (the only kind
\* of app.py's resolver), 0.7 for magic and 0.5 for ranged in rules.py.
C5_CounterDamage ==
  [][CounteredDefense =>
       /\ ~Outcome.hit
       /\ Outcome.raw.defense_value = Counter
       /\ After[AttackerAt].hp =
            Max(Zero, Minus(AttackerBefore.hp, Times(CounterShare, Counter)))]_vars

\* a countered magic attack resolved by rules.py: the attacker, who had all
\* its hp, lost 0.7 times the recorded counter and is still alive
C5_Witness ==
  /\ app = "encounter"
  /\ LastOutcome # None
  /\ ~LastOutcome.hit
  /\ LastOutcome.attack_type = "magic"
  /\ Gt(LastOutcome.raw.defense_value, Zero)
  /\ HasParticipant(log.last.actor_id)
  /\ Gt(ParticipantOf(log.last.actor_id).hp, Zero)
  /\ ParticipantOf(log.last.actor_id).hp =
       Minus(ParticipantOf(log.last.actor_id).hp_max,
             Times(Frac(7, 10), LastOutcome.raw.defense_value))

----------------------------------------------------------------------------
(* C6 *)

\* C6: when roll_a <= roll_b and the counter is <= 0, neither the attacker's
\* nor the defender's hp changes, the outcome has hit = false and its raw
\* values carry no damage.
C6_CleanDefense ==
  [][Resolved /\ ~Gt(Outcome.roll_a, Outcome.roll_b) /\ ~Gt(Counter, Zero) =>
       /\ After[AttackerAt].hp = AttackerBefore.hp
       /\ After[DefenderAt].hp = DefenderBefore.hp
       /\ ~Outcome.hit
       /\ "damage" \notin DOMAIN Outcome.raw]_vars

\* a defence held by rules.py with a counter below zero: both entities keep
\* all their hp
C6_Witness ==
  /\ app = "encounter"
  /\ LastOutcome # None
  /\ ~LastOutcome.hit
  /\ Gt(Zero, LastOutcome.raw.defense_value)
  /\ Gt(LastOutcome.roll_b, LastOutcome.roll_a)
  /\ HasParticipant(log.last.actor_id)
  /\ HasParticipant(log.last.target_id)
  /\ ParticipantOf(log.last.actor_id).hp = ParticipantOf(log.last.actor_id).hp_max
  /\ ParticipantOf(log.last.target_id).hp = ParticipantOf(log.last.target_id).hp_max

----------------------------------------------------------------------------
(* C7 *)

\* C7: a resolver call is made on two distinct entities; on a hit the attacker
\* is unchanged and the defender differs at most in hp; on a defence the
\* defender is unchanged and the attacker differs at most in hp; no other
\* entity changes.
C7_OnlyOneHpChanges ==
  [][Resolved =>
       /\ AttackerAt # DefenderAt
       /\ DOMAIN After = DOMAIN Before
       /\ \A i \in DOMAIN Before \ {AttackerAt, DefenderAt} : After[i] = Before[i]
       /\ IF Outcome.hit
          THEN /\ After[AttackerAt] = AttackerBefore
               /\ After[DefenderAt] = [DefenderBefore EXCEPT !.hp = After[DefenderAt].hp]
          ELSE /\ After[DefenderAt] = DefenderBefore
               /\ After[AttackerAt] = [AttackerBefore EXCEPT !.hp = After[AttackerAt].hp]]_vars

\* a hit resolved by rules.py: the defender lost hp and is otherwise as it was
\* built, the attacker has all its hp
C7_Witness ==
  /\ app = "encounter"
  /\ LastOutcome # None
  /\ LastOutcome.hit
  /\ Len(participants) = 2
  /\ HasParticipant(log.last.actor_id)
  /\ log.last.actor_name = "Guerrier"
  /\ ParticipantOf(log.last.actor_id) = _player_to_runtime(CHOOSE p \in PlayersRoster : TRUE)
  /\ HasParticipant(log.last.target_id)
  /\ Gt(ParticipantOf(log.last.target_id).hp_max, ParticipantOf(log.last.target_id).hp)
  /\ \A i \in DOMAIN participants :
       participants[i].id # log.last.target_id =>
         participants[i].runtime.hp = participants[i].runtime.hp_max

----------------------------------------------------------------------------
(* C8 *)

\* C8: no resolver call has one entity as attacker and as defender: the two
\* places of the duel roster, and the two participant ids of the encounter,
\* handed to the resolver always differ.
C8_NeverSelfAttack == call # None => call.attacker # call.defender

\* the duel screen resolved an exchange on a roster that holds two entities of
\* one name
C8_Witness ==
  /\ app = "duel"
  /\ call # None
  /\ \E i, j \in DOMAIN entities : i # j /\ entities[i].name = entities[j].name

----------------------------------------------------------------------------
(* C9 *)

KnownLevels == DOMAIN monster.variants

\* the last query was answered from the variants of the monster
Answered == variant # None /\ HasVariants(monster)

AtKnownKey == Answered /\ lvl \in KnownLevels

\* r is x rounded to the nearest whole number, a half going to the even one
IsRoundHalfEven(r, x) ==
  /\ r.den = 1
  /\ Ge(Frac(1, 2), Minus(x, r))
  /\ Ge(Frac(1, 2), Minus(r, x))
  /\ (Minus(x, r) = Frac(1, 2) \/ Minus(r, x) = Frac(1, 2)) => r.num % 2 = 0

\* the result carries the fields of the stored variant v as they are
SameAsStored(v) ==
  /\ \A k \in StatKeys : variant[k] = v[k]
  /\ variant.base_attack = v.base_attack
  /\ variant.extra = v.extra

\* the result carries the fields of the stored variant v, normalised: the
\* seven stats are the rounding of the values _extract_variant_fields reads
\* (the stored ones, or those of the ability lines when every stored stat is
\* zero), whole stored values coming back as stored; base_attack is not
\* rounded and is 0.0 when absent; extra is {} when absent
NormalisedFrom(v) ==
  /\ \A k \in StatKeys : IsRoundHalfEven(variant[k], _extract_variant_fields(v)[k])
  /\ (\E k \in StatKeys : v[k] # Zero) =>
       /\ \A k \in StatKeys : v[k].den = 1 => variant[k] = v[k]
       /\ variant.base_attack = IF v.base_attack = None THEN Zero ELSE v.base_attack
  /\ variant.base_attack = _extract_variant_fields(v)["base_attack"]
  /\ variant.extra = IF v.extra = None THEN EmptyDict ELSE v.extra

----------------------------------------------------------------------------
(* C10 *)

BelowRange == Answered /\ \A l \in KnownLevels : lvl < l

AboveRange == Answered /\ \A l \in KnownLevels : lvl > l

----------------------------------------------------------------------------
(* Interpolation between two known levels (variant_interp.py, 260-283) *)

\* the requested level lies strictly inside the known range and is no key
Between ==
  /\ Answered
  /\ lvl \notin KnownLevels
  /\ \E l \in KnownLevels : l < lvl
  /\ \E l \in KnownLevels : l > lvl

\* the largest known level below and the smallest known level above
LowerLevel == SetMax({l \in KnownLevels : l < lvl})

UpperLevel == SetMin({l \in KnownLevels : l > lvl})

\* the values of field k the code reads from the two bracketing variants
LowerValue(k) == _extract_variant_fields(monster.variants[LowerLevel])[k]

UpperValue(k) == _extract_variant_fields(monster.variants[UpperLevel])[k]

\* v0 + (v1 - v0) * (level - l0) / (l1 - l0)
Interpolated(k) ==
  Plus(LowerValue(k),
       Over(Times(Minus(UpperValue(k), LowerValue(k)), Float(lvl - LowerLevel)),
            Float(UpperLevel - LowerLevel)))

\* r is a whole number at most one half away from x
IsNearestInteger(r, x) ==
  /\ r.den = 1
  /\ Ge(Frac(1, 2), Minus(x, r))
  /\ Ge(Frac(1, 2), Minus(r, x))

\* the monster of the example: variants at levels 1 and 5 only, with hp_max
\* 10 and 50, STR 3 and 15, VIT 2 and 10
IsExampleMonster ==
  /\ KnownLevels = {1, 5}
  /\ \A l \in KnownLevels :
       /\ monster.variants[l].hp_max = Float(10 * l)
       /\ monster.variants[l].STR = Float(3 * l)
       /\ monster.variants[l].VIT = Float(2 * l)

Fraction == Frac(lvl - LowerLevel, UpperLevel - LowerLevel)

\* the extra map of a bound as the result can carry it: {} when absent
LowerExtra == _extract_extra(monster.variants[LowerLevel])

UpperExtra == _extract_extra(monster.variants[UpperLevel])

\* C12 as stated: the extra map of an interpolated result is the lower
\* bound's when the fraction is below one half or exactly one half, and the
\* upper bound's when it is above.
C12_Original ==
  Between =>
    /\ Gt(Frac(1, 2), Fraction) => variant.extra = LowerExtra
    /\ Gt(Fraction, Frac(1, 2)) => variant.extra = UpperExtra
    /\ Fraction = Frac(1, 2) => variant.extra = LowerExtra

\* C12: the extra map of an interpolated result is the lower bound's when
\* the fraction is below one half, and the upper bound's when it is above or
\* exactly one half: a tie goes to the upper bound.
C12_TieTakesUpperExtra ==
  Between =>
    /\ Gt(Frac(1, 2), Fraction) => variant.extra = LowerExtra
    /\ Gt(Fraction, Frac(1, 2)) => variant.extra = UpperExtra
    /\ Fraction = Frac(1, 2) => variant.extra = UpperExtra

\* a level half-way between two bounds whose extra maps differ
C12_Witness ==
  /\ Between
  /\ Fraction = Frac(1, 2)
  /\ LowerExtra # UpperExtra
  /\ LowerExtra # EmptyDict
  /\ variant.extra = UpperExtra

----------------------------------------------------------------------------
(* The fallback for a monster without variants (variant_interp.py, 186-213) *)

\* the last query was answered from the ability lines of the monster
FromAbilities == variant # None /\ ~HasVariants(monster) /\ monster.abilities # <<>>

\* the baseline read from the ability lines
Baseline(k) == _extract_stats_from_abilities(monster.abilities)[k]

\* the level range is two whole numbers around one dash
IsDashedRange == Len(monster.level_range) = 2 /\ \A i \in {1, 2} : monster.level_range[i].int >= 0

\* the level range is one whole number
IsSoleInteger == Len(monster.level_range) = 1 /\ monster.level_range[1].int >= 0

\* the inferred level as stated: the midpoint of a dashed range, the sole
\* integer of the string, 1 otherwise
StatedLevel ==
  IF IsDashedRange
  THEN Frac(monster.level_range[1].int + monster.level_range[2].int, 2)
  ELSE IF IsSoleInteger THEN Float(monster.level_range[1].int) ELSE Float(1)

\* the inferred level of the code: the midpoint of a dashed range rounded
\* down, else the first run of digits of the string, else 1
InferredLevel ==
  IF IsDashedRange
  THEN (monster.level_range[1].int + monster.level_range[2].int) \div 2
  ELSE IF \E i \in DOMAIN monster.level_range : monster.level_range[i].first >= 0
       THEN FirstNumber(monster.level_range)
       ELSE 1

\* level / inferred_level, and 1 when the inferred level is 0
LevelFactor == IF InferredLevel > 0 THEN Frac(lvl, InferredLevel) ELSE Float(1)

\* C13 as stated: without variants, every numeric field of the result is the
\* ability-derived baseline times level / inferred_level, the inferred
\* level being the midpoint of a dashed range, the sole integer of the range,
\* or 1.
C13_Original ==
  (FromAbilities /\ StatedLevel # Zero) =>
    \A k \in FieldKeys : variant[k] = Times(Baseline(k), Over(Float(lvl), StatedLevel))

\* C13: without variants, the seven stats of the result are the baseline
\* times the level factor rounded to a nearest integer and base_attack is
\* that product unrounded; the factor is level / inferred_level, and 1 when
\* the inferred level is 0; the inferred level is the midpoint of a dashed
\* range of two integers rounded down, else the first run of digits of the
\* range string, else 1.
C13_ScaledThenRounded ==
  FromAbilities =>
    /\ variant.level = lvl
    /\ \A k \in StatKeys : IsNearestInteger(variant[k], Times(Baseline(k), LevelFactor))
    /\ variant.base_attack = Times(Baseline("base_attack"), LevelFactor)

\* a dashed range with an odd sum, a level that is no multiple of the
\* inferred one: hp_max is rounded, base_attack is not
C13_Witness ==
  /\ FromAbilities
  /\ IsDashedRange
  /\ StatedLevel.den = 2
  /\ lvl > 0
  /\ Times(Baseline("hp_max"), LevelFactor).den # 1
  /\ variant.hp_max.den = 1
  /\ variant.base_attack.den # 1

----------------------------------------------------------------------------
(* Monsters without data in the encounter builder (ui.py, 264-281, 382-451) *)

\* every stat of a runtime entity is zero
AllZero(rt) ==
  /\ rt.hp_max = Zero /\ rt.hp = Zero /\ rt.mp_max = Zero
  /\ \A k \in {"STR", "AGI", "INT", "DEX", "VIT"} : rt[k] = Zero

\* participant i is a mob made of a compendium monster and level for which
\* interpolated_variant returns None
MadeOfNoData(i) ==
  /\ participants[i].side = "mob"
  /\ \E m \in CompendiumMonsters :
       /\ participants[i].runtime.name = RuntimeName(m, participants[i].runtime.level)
       /\ interpolated_variant(m, participants[i].runtime.level) = None

----------------------------------------------------------------------------
(* src/src/md_parser.py: _safe_key, asked for a name against a mapping *)

\* f"{base} ({i})"
SuffixedKey(base, i) == base \o " (" \o ToString(i) \o ")"

\* the while loop of lines 42-44
RECURSIVE NextFreeKey(_, _, _)
NextFreeKey(base, existing, i) ==
  IF SuffixedKey(base, i) \in DOMAIN existing
  THEN NextFreeKey(base, existing, i + 1)
  ELSE SuffixedKey(base, i)

\* the suffix " (2)" given without looking at the mapping
_safe_key_first_suffix(name, existing) ==
  IF name \notin DOMAIN existing THEN name ELSE SuffixedKey(name, 2)

_safe_key(name, existing) ==
  IF name \notin DOMAIN existing THEN name ELSE NextFreeKey(name, existing, 2)

\* the names asked for, one of them looking like a suffixed key
KeyNames == {"Lapin", "Loup", "Lapin (2)"}

\* the keys a mapping may already hold
KeyPool ==
  {"Lapin", "Lapin (2)", "Lapin (3)", "Lapin (4)", "Lapin (2) (2)", "Loup", "Loup (2)"}

InitKey ==
  /\ app = "key"
  /\ disk = <<>>
  /\ entities = <<>>
  /\ vit_div = 100
  /\ last_result = None
  /\ combat_log = 0
  /\ participants = <<>>
  /\ turn_index = 0
  /\ round = 1
  /\ log = EmptyLog
  /\ next_id = 1
  /\ call = None
  /\ ncalls = 0
  /\ monster = NoMonster
  /\ lvl = 0
  /\ variant = None
  /\ safe_name \in KeyNames
  /\ safe_existing \in {[k \in S |-> 0] : S \in SUBSET KeyPool}
  /\ safe_key = ""
  /\ md_text = <<>>
  /\ skill_texts = <<>>
  /\ compendium = None
  /\ reparsed = None
  /\ reloaded = None

\* one call _safe_key(name, existing)
SafeKey ==
  /\ app = "key"
  /\ safe_key = ""
  /\ safe_key' = _safe_key(safe_name, safe_existing)
  /\ UNCHANGED <<app, duelVars, encVars, call, ncalls, interpVars, mdVars, safe_name,
                 safe_existing>>

NextKey == SafeKey

SpecKey == InitKey /\ [][NextKey]_vars

\* _safe_key has returned
KeyReturned == app = "key" /\ safe_key # ""

\* the suffixes whose key is not taken
FreeSuffixes ==
  {i \in 2 .. Cardinality(DOMAIN safe_existing) + 2 :
     SuffixedKey(safe_name, i) \notin DOMAIN safe_existing}

\* C15: _safe_key(name, existing) returns name unchanged when name is not a
\* key of existing; otherwise it returns name + " (i)" for the smallest
\* i >= 2 whose string is not a key of existing; in every case the returned
\* key is not a key of existing.
C15_SafeKeyIsFree ==
  KeyReturned =>
    /\ safe_name \notin DOMAIN safe_existing => safe_key = safe_name
    /\ safe_name \in DOMAIN safe_existing =>
         safe_key = SuffixedKey(safe_name, SetMin(FreeSuffixes))
    /\ safe_key \notin DOMAIN safe_existing

\* the name and its first suffix are taken and the second is free
C15_Witness ==
  /\ KeyReturned
  /\ safe_name \in DOMAIN safe_existing
  /\ SuffixedKey(safe_name, 2) \in DOMAIN safe_existing
  /\ safe_key = SuffixedKey(safe_name, 3)

----------------------------------------------------------------------------
(* src/src/md_parser.py: parse_monsters_bestiaire.  A line is read as the   *)
(* first pattern of the loop that matches it:                                *)
(*   [kind |-> "palier", pal]          _RE_PALIER                            *)
(*   [kind |-> "header", name, range, bad]  _RE_MONSTER_HEADER, bad when     *)
(*                                     _RE_SECTION_BAD finds a section word  *)
(*   [kind |-> "level", lvl]           _RE_LEVEL                             *)
(*   [kind |-> "phase", label]         _RE_PHASE                             *)
(*   [kind |-> "abilities_h"]          _RE_ABILITIES_H                       *)
(*   [kind |-> "item", key, digits, desc]  _RE_ABILITY_ITEM, "- **key:** desc", *)
(*                                     digits being the number desc starts   *)
(*                                     with, -1 when it starts with none     *)
(*   [kind |-> "sep"]                  "---", which no pattern matches       *)
(*   [kind |-> "text"]                 any other line                        *)
(* _RE_ABILITY_ITEM matches every line that _RE_DROP, _RE_ZONE, _RE_HP_MP,   *)
(* _RE_STAT, _RE_BASE_ATK or _RE_KV_ANY matches and is tried before them, so *)
(* the branches of lines 300-351 are never entered.                          *)

\* a Python str made of the digits of n
DigitString(n) == [digits |-> n]

\* the locals of parse_monsters_bestiaire at its first line (98-111)
ParserStart ==
  [monsters |-> <<>>, current_palier |-> "", cur_monster |-> None, cur_key |-> "",
   cur_level |-> -1, cur_label |-> "", cur_hp_max |-> None, cur_mp_max |-> None,
   cur_stats |-> <<>>, cur_base_attack |-> None, cur_abilities |-> <<>>,
   artificial_level |-> 0]

\* cur_level, or the next synthetic level (115-121)
_ensure_variant_level(st) ==
  IF st.cur_level # -1 THEN st
  ELSE [st EXCEPT !.artificial_level = @ + 1, !.cur_level = 10000 + st.artificial_level + 1]

\* one ability of the loop of lines 133-177
ExtractAbility(st, a) ==
  IF a.key = "HP" /\ a.digits >= 0 /\ st.cur_hp_max = None
  THEN [st EXCEPT !.cur_hp_max = Float(a.digits)]
  ELSE IF a.key = "MP" /\ a.digits >= 0 /\ st.cur_mp_max = None
  THEN [st EXCEPT !.cur_mp_max = Float(a.digits)]
  ELSE IF a.key \in {"STR", "AGI", "INT", "DEX", "VIT"} /\ a.digits >= 0
  THEN [st EXCEPT !.cur_stats = (a.key :> Float(a.digits)) @@ @]
  ELSE IF a.key = "Attaque de base" /\ a.digits >= 0 /\ st.cur_base_attack = None
  THEN [st EXCEPT !.cur_base_attack = DigitString(a.digits)]
  ELSE IF a.key = "Drop" /\ st.cur_monster.drops = <<>>
  THEN [st EXCEPT !.cur_monster.drops = <<a.desc>>]
  ELSE IF a.key = "Zone" /\ st.cur_monster.zone = ""
  THEN [st EXCEPT !.cur_monster.zone = a.desc]
  ELSE [st EXCEPT !.cur_abilities = Append(@, a)]

\* extract_stats_from_abilities (123-177): the abilities that feed a stat are
\* taken out of the list
RECURSIVE ExtractAbilities(_, _)
ExtractAbilities(st, abilities) ==
  IF abilities = <<>> THEN st
  ELSE ExtractAbilities(ExtractAbility(st, Head(abilities)), Tail(abilities))

extract_stats_from_abilities(st) ==
  ExtractAbilities([st EXCEPT !.cur_abilities = <<>>], st.cur_abilities)

\* cur_stats.get(k, 0.0)
StatOrZero(stats, k) == IF k \in DOMAIN stats THEN stats[k] ELSE Zero

\* the extra dict of lines 211-215, None when it is empty
VariantExtra(st) ==
  IF st.cur_label # "" /\ st.cur_abilities # <<>>
  THEN [label |-> st.cur_label, abilities |-> st.cur_abilities]
  ELSE IF st.cur_label # "" THEN [label |-> st.cur_label]
  ELSE IF st.cur_abilities # <<>> THEN [abilities |-> st.cur_abilities]
  ELSE None

\* nothing has been gathered for a variant (187-197)
NothingGathered(st) ==
  /\ st.cur_level = -1
  /\ st.cur_label = ""
  /\ st.cur_hp_max = None
  /\ st.cur_mp_max = None
  /\ DOMAIN st.cur_stats = {}
  /\ st.cur_base_attack = None
  /\ st.cur_abilities = <<>>

\* a level that has a variant keeping it
StoreVariantKeepsFirst(variants, l, v) == variants @@ (l :> v)

\* line 220: cur_monster.variants[int(lvl)] = v
StoreVariant(variants, l, v) == (l :> v) @@ variants

\* flush_variant (179-229)
flush_variant(st) ==
  IF st.cur_monster = None THEN st
  ELSE LET ex == extract_stats_from_abilities(st)
       IN  IF NothingGathered(ex) THEN ex
           ELSE LET lv == _ensure_variant_level(ex)
                    v == MonsterVariant(lv.cur_level,
                                        FloatOrZero(lv.cur_hp_max), FloatOrZero(lv.cur_mp_max),
                                        StatOrZero(lv.cur_stats, "STR"),
                                        StatOrZero(lv.cur_stats, "AGI"),
                                        StatOrZero(lv.cur_stats, "INT"),
                                        StatOrZero(lv.cur_stats, "DEX"),
                                        StatOrZero(lv.cur_stats, "VIT"),
                                        lv.cur_base_attack, VariantExtra(lv))
                IN  [lv EXCEPT !.cur_monster.variants = StoreVariant(@, lv.cur_level, v),
                               !.cur_level = -1, !.cur_label = "",
                               !.cur_hp_max = None, !.cur_mp_max = None,
                               !.cur_stats = <<>>, !.cur_base_attack = None,
                               !.cur_abilities = <<>>]

\* the monster stored under its name, whatever key was reserved for it
StoreKeyName(st) == st.cur_monster.name

\* line 238: cur_key or cur_monster.name
StoreKey(st) == IF st.cur_key # "" THEN st.cur_key ELSE st.cur_monster.name

\* the synthetic counter carried over to the next monster
CounterAfterFlushKept(n) == n

\* line 241: artificial_level = 0
CounterAfterFlush(n) == 0

\* flush_monster (231-241)
flush_monster(st) ==
  IF st.cur_monster = None THEN st
  ELSE LET fv == flush_variant(st)
       IN  [fv EXCEPT !.monsters = (StoreKey(fv) :> fv.cur_monster) @@ @,
                      !.cur_monster = None, !.cur_key = "",
                      !.artificial_level = CounterAfterFlush(@)]

\* a heading with a section word closing the monster before it
SectionHeadingCloses(st) == flush_monster(st)

\* lines 253-254: a heading of the monster-header shape with a section word
\* is passed over
SectionHeading(st) == st

\* the body of the loop for one line (243-351)
ParseLine(st, line) ==
  IF line.kind = "palier"
  THEN [st EXCEPT !.current_palier = "Palier " \o ToString(line.pal)]
  ELSE IF line.kind = "header"
  THEN IF line.bad THEN SectionHeading(st)
       ELSE LET fm == flush_monster(st)
            IN  [fm EXCEPT !.cur_monster =
                             [Monster(line.name, line.range, <<>>, <<>>)
                                EXCEPT !.palier = fm.current_palier],
                           !.cur_key = _safe_key(line.name, fm.monsters)]
  ELSE IF st.cur_monster = None THEN st
  ELSE IF line.kind = "level"
  THEN [flush_variant(st) EXCEPT !.cur_level = line.lvl]
  ELSE IF line.kind = "phase"
  THEN [flush_variant(st) EXCEPT !.cur_label = line.label, !.cur_level = -1]
  ELSE IF line.kind = "abilities_h" THEN st
  ELSE IF line.kind = "item"
  THEN [st EXCEPT !.cur_abilities =
                    Append(@, [key |-> line.key, digits |-> line.digits, desc |-> line.desc])]
  ELSE st

RECURSIVE ParseLines(_, _)
ParseLines(st, lines) ==
  IF lines = <<>> THEN st ELSE ParseLines(ParseLine(st, Head(lines)), Tail(lines))

\* parse_monsters_bestiaire (96-357): the loop, the last flush, the mapping
parse_monsters_bestiaire(md) == flush_monster(ParseLines(ParserStart, md)).monsters

----------------------------------------------------------------------------
(* src/src/md_parser.py: parse_skills_md.  A line is read as the first       *)
(* pattern of the loop that matches it:                                      *)
(*   [kind |-> "palier", pal]            _RE_PALIER                          *)
(*   [kind |-> "heading", hashes, text]  "#" * hashes, a space, text:        *)
(*        _RE_SKILL_CATEGORY_HEADER takes 2 or 3 hashes and is tried first,  *)
(*        _RE_SKILL_HEADER is left with 4                                    *)
(*   [kind |-> "description", v], [kind |-> "cost", v],                      *)
(*   [kind |-> "condition", v], [kind |-> "incantation", v]                  *)
(*   [kind |-> "kv", k, v]               _RE_KV_ANY, k in lower case         *)
(*   [kind |-> "sep"]                    "---"                               *)
(*   [kind |-> "text"]                   any other line                      *)

\* models.py 127-134; attrs holds what setattr adds beside the fields
Skill(name, category, description, cost_mp, condition, palier) ==
  [name |-> name, category |-> category, description |-> description,
   cost_mp |-> cost_mp, condition |-> condition, palier |-> palier, attrs |-> <<>>]

SkillFields == {"name", "category", "description", "cost_mp", "condition", "palier"}

\* A dict read in its insertion order is the sequence of its items.
DictKeys(items) == {items[i].key : i \in DOMAIN items}

\* the dict as a mapping from its keys
DictOf(items) ==
  [k \in DictKeys(items) |-> items[CHOOSE i \in DOMAIN items : items[i].key = k].value]

\* d[k] = v: the value of a key already there is replaced in place
DictSet(items, k, v) ==
  IF k \in DictKeys(items)
  THEN [i \in DOMAIN items |-> IF items[i].key = k THEN [key |-> k, value |-> v] ELSE items[i]]
  ELSE Append(items, [key |-> k, value |-> v])

\* the locals of parse_skills_md at its first line (371-380)
SkillParserStart ==
  [skills |-> <<>>, current_palier |-> "", current_category |-> "",
   cur_skill_name |-> "", cur_description |-> "", cur_cost |-> "",
   cur_condition |-> "", cur_extra |-> <<>>]

\* lines 396-399: an extra key fills the field of its name when that field is
\* None, and becomes a new attribute when there is no such field
WithExtras(skill, extra) ==
  [f \in DOMAIN skill |->
     IF f = "attrs" THEN [k \in DOMAIN extra \ SkillFields |-> extra[k]]
     ELSE IF f \in DOMAIN extra /\ skill[f] = "" THEN extra[f]
     ELSE skill[f]]

\* flush_skill (382-408)
flush_skill(st) ==
  LET skill == WithExtras(Skill(st.cur_skill_name, st.current_category, st.cur_description,
                                st.cur_cost, st.cur_condition, st.current_palier),
                          st.cur_extra)
      stored == IF st.cur_skill_name # ""
                THEN DictSet(st.skills, _safe_key(st.cur_skill_name, DictOf(st.skills)), skill)
                ELSE st.skills
  IN  [st EXCEPT !.skills = stored, !.cur_skill_name = "", !.cur_description = "",
                 !.cur_cost = "", !.cur_condition = "", !.cur_extra = <<>>]

\* the generic "- **Key:** value" line (456-467)
SkillKeyValue(st, k, v) ==
  IF k = "description" /\ st.cur_description = "" THEN [st EXCEPT !.cur_description = v]
  ELSE IF k \in {"coût mp", "cout mp", "coût pm", "cout pm"} /\ st.cur_cost = ""
  THEN [st EXCEPT !.cur_cost = v]
  ELSE IF k = "condition" /\ st.cur_condition = "" THEN [st EXCEPT !.cur_condition = v]
  ELSE [st EXCEPT !.cur_extra = (k :> v) @@ @]

\* _RE_SKILL_CATEGORY_HEADER: 2 or 3 hashes
IsCategoryHeader(line) == line.kind = "heading" /\ line.hashes \in {2, 3}

\* _RE_SKILL_HEADER: 3 or 4 hashes
IsSkillHeader(line) == line.kind = "heading" /\ line.hashes \in {3, 4}

\* the body of the loop for one line (410-471)
ParseSkillLine(st, line) ==
  IF line.kind = "palier"
  THEN [st EXCEPT !.current_palier = "Palier " \o ToString(line.pal)]
  ELSE IF IsCategoryHeader(line)
  THEN [flush_skill(st) EXCEPT !.current_category = line.text]
  ELSE IF IsSkillHeader(line)
  THEN [flush_skill(st) EXCEPT !.cur_skill_name = line.text]
  ELSE IF st.cur_skill_name = "" THEN st
  ELSE IF line.kind = "description" THEN [st EXCEPT !.cur_description = line.v]
  ELSE IF line.kind = "cost" THEN [st EXCEPT !.cur_cost = line.v]
  ELSE IF line.kind = "condition" THEN [st EXCEPT !.cur_condition = line.v]
  ELSE IF line.kind = "incantation" THEN [st EXCEPT !.cur_extra = ("incantation" :> line.v) @@ @]
  ELSE IF line.kind = "kv" THEN SkillKeyValue(st, line.k, line.v)
  ELSE IF line.kind = "sep" THEN flush_skill(st)
  ELSE st

RECURSIVE ParseSkillLines(_, _)
ParseSkillLines(st, lines) ==
  IF lines = <<>> THEN st
  ELSE ParseSkillLines(ParseSkillLine(st, Head(lines)), Tail(lines))

\* parse_skills_md (361-476): the dict of skills, in insertion order
parse_skills_md(md) == flush_skill(ParseSkillLines(SkillParserStart, md)).skills

----------------------------------------------------------------------------
(* build_compendium_from_md (md_parser.py 489-504) and the JSON form of a   *)
(* Compendium (models.py 137-190)                                            *)

\* the key a parsed skill had in its own document, used again
MergeKeyAsParsed(key, skill, skills) == key

\* line 501: key = _safe_key(v.name, skills)
MergeKey(key, skill, skills) == _safe_key(skill.name, DictOf(skills))

\* lines 500-502: the skills of one document added to the merged dict
RECURSIVE MergePart(_, _)
MergePart(skills, part) ==
  IF part = <<>> THEN skills
  ELSE MergePart(DictSet(skills, MergeKey(Head(part).key, Head(part).value, skills),
                         Head(part).value),
                 Tail(part))

\* lines 493-502: the documents read in their given order
RECURSIVE MergeSkills(_, _)
MergeSkills(skills, texts) ==
  IF texts = <<>> THEN skills
  ELSE MergeSkills(MergePart(skills, parse_skills_md(Head(texts))), Tail(texts))

build_compendium_from_md(bestiaire, texts) ==
  [monsters |-> parse_monsters_bestiaire(bestiaire), skills |-> MergeSkills(<<>>, texts)]

\* str(k) of a level and int(lk) of a JSON key
LevelKey(k) == DigitString(k)

LevelOfKey(lk) == lk.digits

\* float(x) of a float or of a str of digits
ToFloat(x) == IF DOMAIN x = {"digits"} THEN Float(x.digits) ELSE x

\* Compendium.to_dict (142-154): asdict of every record, the level keys as str
to_dict(c) ==
  [monsters |->
     [name \in DOMAIN c.monsters |->
        [c.monsters[name] EXCEPT !.variants =
           [lk \in {LevelKey(k) : k \in DOMAIN c.monsters[name].variants} |->
              c.monsters[name].variants[LevelOfKey(lk)]]]],
   skills |-> [i \in DOMAIN c.skills |->
                 [c.skills[i] EXCEPT !.value = [f \in SkillFields |-> c.skills[i].value[f]]]]]

\* one variant of from_dict (163-174)
VariantFromDict(vd) ==
  MonsterVariant(vd.level, ToFloat(vd.hp_max), ToFloat(vd.mp_max), ToFloat(vd.STR),
                 ToFloat(vd.AGI), ToFloat(vd.INT), ToFloat(vd.DEX), ToFloat(vd.VIT),
                 IF vd.base_attack # None THEN ToFloat(vd.base_attack) ELSE None,
                 vd.extra)

\* Compendium.from_dict (157-190)
from_dict(d) ==
  [monsters |->
     [name \in DOMAIN d.monsters |->
        [d.monsters[name] EXCEPT !.variants =
           [k \in {LevelOfKey(lk) : lk \in DOMAIN d.monsters[name].variants} |->
              VariantFromDict(d.monsters[name].variants[LevelKey(k)])]]],
   skills |-> [i \in DOMAIN d.skills |->
                 [d.skills[i] EXCEPT !.value = d.skills[i].value @@ [attrs |-> <<>>]]]]

----------------------------------------------------------------------------
(* The documents read *)

\* lines of a generated bestiaire document
MaxLines == 4

\* lines of a generated skill document
MaxSkillLines == 2

HeaderLine(name, range, bad) == [kind |-> "header", name |-> name, range |-> range, bad |-> bad]

\* a header that ends with the crown marker, "### **name** 👑"
CrownedHeaderLine(name) == [crown |-> TRUE] @@ HeaderLine(name, <<>>, FALSE)

ItemLine(key, digits, desc) == [kind |-> "item", key |-> key, digits |-> digits, desc |-> desc]

\* "- **key:** cur/max": the line keeps the number on the right of its slash
SlashLine(key, cur, max) ==
  [max |-> max] @@ ItemLine(key, cur, ToString(cur) \o "/" \o ToString(max))

\* "### **Lapin** (1-5)", "### **Lapin (2)**", "### **BOSS Lapin**",
\* "### **Loup** 👑", "**Niveau 3:**", "**Phase 1:**", "- **HP:** 10/12",
\* "- **Attaque de base:** 5", "- **Morsure:** mord", "---"
BestiaireLines ==
  { HeaderLine("Lapin", <<IntField(1), IntField(5)>>, FALSE),
    HeaderLine("Lapin (2)", <<>>, FALSE),
    HeaderLine("BOSS Lapin", <<>>, TRUE),
    CrownedHeaderLine("Loup"),
    [kind |-> "level", lvl |-> 3],
    [kind |-> "phase", label |-> "Phase 1"],
    SlashLine("HP", 10, 12),
    ItemLine("Attaque de base", 5, "5"),
    ItemLine("Morsure", -1, "mord"),
    [kind |-> "sep"] }

\* a document with the lines the generated ones leave out
ExampleBestiaire ==
  << [kind |-> "palier", pal |-> 1],
     HeaderLine("Loup", <<IntField(2), IntField(4)>>, FALSE),
     [kind |-> "abilities_h"],
     ItemLine("HP", 15, "15/15"), ItemLine("MP", 4, "4"), ItemLine("STR", 4, "4"),
     ItemLine("Drop", -1, "Croc"), ItemLine("Zone", -1, "Forêt"),
     ItemLine("Hurlement", -1, "effraie"),
     [kind |-> "text"],
     [kind |-> "phase", label |-> "Version B"],
     ItemLine("HP", 20, "20") >>

\* a level given twice in one monster block: "### **Lapin** (1-5)",
\* "**Niveau 3:**", "- **HP:** 10/12", "- **Attaque de base:** 5",
\* "- **Drop:** Patte", "**Niveau 3:**", "- **HP:** 20", "- **Drop:** Peau"
RepeatedLevelBestiaire ==
  << HeaderLine("Lapin", <<IntField(1), IntField(5)>>, FALSE),
     [kind |-> "level", lvl |-> 3],
     SlashLine("HP", 10, 12), ItemLine("Attaque de base", 5, "5"),
     ItemLine("Drop", -1, "Patte"),
     [kind |-> "level", lvl |-> 3],
     ItemLine("HP", 20, "20"), ItemLine("Drop", -1, "Peau") >>

BestiaireDocs ==
  UNION {[1 .. n -> BestiaireLines] : n \in 0 .. MaxLines}
    \cup {ExampleBestiaire, RepeatedLevelBestiaire}

HeadingLine(hashes, text) == [kind |-> "heading", hashes |-> hashes, text |-> text]

\* "#### Boule de feu", "#### Boule de feu (2)", "### Boule de feu",
\* "- **Description:** brûle", "- **Coût MP:** 10 PM"
SkillLines ==
  { HeadingLine(4, "Boule de feu"),
    HeadingLine(4, "Boule de feu (2)"),
    HeadingLine(3, "Boule de feu"),
    [kind |-> "description", v |-> "brûle"],
    [kind |-> "cost", v |-> "10 PM"] }

\* the format of the docstring of parse_skills_md (364-369)
DocumentedSkill ==
  << HeadingLine(3, "Boule de feu"),
     [kind |-> "description", v |-> "brûle"],
     [kind |-> "cost", v |-> "10 PM"],
     [kind |-> "condition", v |-> "aucune"] >>

\* the same lines under a heading of four hashes
DeeperSkill == <<HeadingLine(4, "Boule de feu")>> \o Tail(DocumentedSkill)

\* a document with the lines the generated ones leave out
ExampleSkills ==
  << [kind |-> "palier", pal |-> 2],
     HeadingLine(2, "Magie"),
     HeadingLine(4, "Soin"),
     [kind |-> "incantation", v |-> "lux"],
     [kind |-> "kv", k |-> "portée", v |-> "5 m"],
     [kind |-> "kv", k |-> "condition", v |-> "allié"],
     [kind |-> "text"],
     [kind |-> "sep"],
     HeadingLine(4, "Soin"),
     [kind |-> "condition", v |-> "aucune"] >>

\* a tier header read while a skill is open: "# PALIER 1", "#### Soin",
\* "- **Description:** soigne", "# PALIER 2", "#### Feu"
LateTierSkills ==
  << [kind |-> "palier", pal |-> 1],
     HeadingLine(4, "Soin"),
     [kind |-> "description", v |-> "soigne"],
     [kind |-> "palier", pal |-> 2],
     HeadingLine(4, "Feu") >>

SkillDocs ==
  UNION {[1 .. n -> SkillLines] : n \in 0 .. MaxSkillLines}
    \cup {DocumentedSkill, DeeperSkill, ExampleSkills, LateTierSkills}

\* one or two skill documents, in their given order
SkillTextLists ==
  {<<a>> : a \in SkillDocs} \cup {<<a, b>> : <<a, b>> \in SkillDocs \X SkillDocs}

InitMd(which) ==
  /\ app = which
  /\ disk = <<>>
  /\ entities = <<>>
  /\ vit_div = 100
  /\ last_result = None
  /\ combat_log = 0
  /\ participants = <<>>
  /\ turn_index = 0
  /\ round = 1
  /\ log = EmptyLog
  /\ next_id = 1
  /\ call = None
  /\ ncalls = 0
  /\ monster = NoMonster
  /\ lvl = 0
  /\ variant = None
  /\ MdIdle

InitBestiaire == InitMd("bestiaire")

InitSkills == InitMd("skills")

\* build_compendium_from_md on a bestiaire without skill documents, or on
\* skill documents beside an empty bestiaire
BuildCompendium ==
  /\ app \in {"bestiaire", "skills"}
  /\ compendium = None
  /\ \E md \in IF app = "bestiaire" THEN BestiaireDocs ELSE {<<>>} :
       \E texts \in IF app = "skills" THEN SkillTextLists ELSE {<<>>} :
         /\ md_text' = md
         /\ skill_texts' = texts
         /\ compendium' = build_compendium_from_md(md, texts)
  /\ UNCHANGED <<app, duelVars, encVars, call, ncalls, interpVars, keyVars, reparsed, reloaded>>

\* parse_monsters_bestiaire called again on the same text
ParseAgain ==
  /\ app \in {"bestiaire", "skills"}
  /\ compendium # None
  /\ reparsed = None
  /\ reparsed' = [monsters |-> parse_monsters_bestiaire(md_text)]
  /\ UNCHANGED <<app, duelVars, encVars, call, ncalls, interpVars, keyVars, md_text,
                 skill_texts, compendium, reloaded>>

\* storage.py: the compendium written as JSON and read back
SaveAndLoad ==
  /\ app \in {"bestiaire", "skills"}
  /\ compendium # None
  /\ reloaded = None
  /\ reloaded' = from_dict(to_dict(compendium))
  /\ UNCHANGED <<app, duelVars, encVars, call, ncalls, interpVars, keyVars, md_text,
                 skill_texts, compendium, reparsed>>

NextMd ==
  \/ BuildCompendium
  \/ ParseAgain
  \/ SaveAndLoad

SpecBestiaire == InitBestiaire /\ [][NextMd]_vars

SpecSkills == InitSkills /\ [][NextMd]_vars

----------------------------------------------------------------------------
(* The bestiaire read against its text *)

\* a bestiaire has been parsed
BestiaireBuilt == app = "bestiaire" /\ compendium # None

\* the places of the monster headers the parser accepts
AcceptedHeaders ==
  {i \in DOMAIN md_text : md_text[i].kind = "header" /\ ~md_text[i].bad}

\* the last line of the block a header opens
BlockEnd(i) ==
  IF \E j \in AcceptedHeaders : j > i
  THEN SetMin({j \in AcceptedHeaders : j > i}) - 1
  ELSE Len(md_text)

\* the block of a header: its line and the lines up to the next header
Block(i) == SubSeq(md_text, i, BlockEnd(i))

\* the key of the entry of the header at place i: its name, or the name with
\* a suffix when the name is a key already
RECURSIVE HeaderKey(_)
HeaderKey(i) ==
  _safe_key(md_text[i].name, [k \in {HeaderKey(j) : j \in {h \in AcceptedHeaders : h < i}} |-> 0])

\* the variants the block of a header gives when it is the whole document
OwnVariants(i) == parse_monsters_bestiaire(Block(i))[md_text[i].name].variants

\* C16: parse_monsters_bestiaire never overwrites a monster: the result has
\* exactly as many entries as accepted headers; every accepted header has
\* its own entry, under its name or, when an earlier header has that name,
\* under a suffixed key; each entry holds the variants of its own block only.
C16_NoMonsterOverwritten ==
  BestiaireBuilt =>
    /\ Cardinality(DOMAIN compendium.monsters) = Cardinality(AcceptedHeaders)
    /\ \A i \in AcceptedHeaders :
         /\ HeaderKey(i) \in DOMAIN compendium.monsters
         /\ compendium.monsters[HeaderKey(i)].name = md_text[i].name
         /\ compendium.monsters[HeaderKey(i)].variants = OwnVariants(i)
         /\ (\E j \in AcceptedHeaders : j < i /\ md_text[j].name = md_text[i].name) =>
              /\ HeaderKey(i) # md_text[i].name
              /\ \E n \in 2 .. Len(md_text) + 1 : HeaderKey(i) = SuffixedKey(md_text[i].name, n)
    /\ \A i, j \in AcceptedHeaders : HeaderKey(i) = HeaderKey(j) => i = j

\* two monsters of one name with different variants, both in the result
C16_Witness ==
  /\ BestiaireBuilt
  /\ \E i, j \in AcceptedHeaders :
       /\ i < j
       /\ md_text[i].name = md_text[j].name
       /\ DOMAIN OwnVariants(i) # {}
       /\ DOMAIN OwnVariants(j) # {}
       /\ DOMAIN OwnVariants(i) # DOMAIN OwnVariants(j)
       /\ compendium.monsters[md_text[i].name].variants = OwnVariants(i)
       /\ compendium.monsters[SuffixedKey(md_text[j].name, 2)].variants = OwnVariants(j)

\* the phase lines of the block of a header: each opens a block without level
PhaseLines(i) == {j \in i + 1 .. BlockEnd(i) : md_text[j].kind = "phase"}

\* the first level or phase line of the block, or the line after the block
FirstBreak(i) ==
  SetMin({j \in i + 1 .. BlockEnd(i) : md_text[j].kind \in {"level", "phase"}}
           \cup {BlockEnd(i) + 1})

\* the lines between the header and the first level or phase line that put
\* something into a variant
LeadingItems(i) ==
  {j \in i + 1 .. FirstBreak(i) - 1 :
     md_text[j].kind = "item" /\ md_text[j].key \notin {"Drop", "Zone"}}

\* 1 when the lines under the header make a variant block without level
Leading(i) == IF LeadingItems(i) # {} THEN 1 ELSE 0

\* the number of variant blocks without level of the monster
LevelLessBlocks(i) == Cardinality(PhaseLines(i)) + Leading(i)

\* the variants of the entry of the header at place i
EntryVariants(i) == compendium.monsters[HeaderKey(i)].variants

\* the label of a variant, "" when it has none
LabelOf(v) == IF v.extra # None /\ "label" \in DOMAIN v.extra THEN v.extra.label ELSE ""

\* C18: a second parse of the same text gives the same monsters, and the
\* k-th variant block without level of a monster has level 10000 + k,
\* whatever monsters precede it in the document.
C18_SyntheticLevelsRestart ==
  /\ (BestiaireBuilt /\ reparsed # None) => reparsed.monsters = compendium.monsters
  /\ BestiaireBuilt =>
       \A i \in AcceptedHeaders :
         /\ {l \in DOMAIN EntryVariants(i) : l > 10000}
              = 10001 .. 10000 + LevelLessBlocks(i)
         /\ Leading(i) = 1 => LabelOf(EntryVariants(i)[10001]) = ""
         /\ \A j \in PhaseLines(i) :
              LabelOf(EntryVariants(i)[10000 + Leading(i)
                                         + Cardinality({p \in PhaseLines(i) : p <= j})])
                = md_text[j].label

\* a second monster whose block without level has level 10001, after a first
\* monster with such a block of its own, the text parsed twice
C18_Witness ==
  /\ BestiaireBuilt
  /\ reparsed # None
  /\ \E i, j \in AcceptedHeaders :
       /\ i < j
       /\ LevelLessBlocks(i) >= 1
       /\ LevelLessBlocks(j) = 1
       /\ DOMAIN EntryVariants(i) = {10001}
       /\ DOMAIN EntryVariants(j) = {10001}

----------------------------------------------------------------------------
(* The merged skills read against the documents *)

\* skill documents have been parsed and merged
SkillsBuilt == app = "skills" /\ compendium # None

\* the skills the documents produce, in the order they are merged
RECURSIVE ProducedFrom(_)
ProducedFrom(texts) ==
  IF texts = <<>> THEN <<>>
  ELSE LET part == parse_skills_md(Head(texts))
       IN  [i \in DOMAIN part |-> part[i].value] \o ProducedFrom(Tail(texts))

Produced == ProducedFrom(skill_texts)

\* the merged dict, in insertion order
Merged == compendium.skills

\* key is name followed by " (n)"
IsSuffixedKey(key, name) ==
  \E n \in 2 .. Len(Produced) + 1 : key = SuffixedKey(name, n)

\* every produced skill has its own entry, in order, with its content
EverySkillKept ==
  /\ Len(Merged) = Len(Produced)
  /\ \A i \in DOMAIN Merged : Merged[i].value = Produced[i]
  /\ \A i, j \in DOMAIN Merged : Merged[i].key = Merged[j].key => i = j

\* the skill at place i is the first of its name
FirstOfName(i) == \A j \in 1 .. i - 1 : Produced[j].name # Produced[i].name

\* C17 as stated: merging never replaces a stored skill; the merged mapping
\* has as many entries as the documents produced; the first-seen skill of a
\* name keeps the plain key with its content and each later skill of that
\* name is stored under a suffixed key.
C17_Original ==
  SkillsBuilt =>
    /\ EverySkillKept
    /\ \A i \in DOMAIN Merged :
         IF FirstOfName(i) THEN Merged[i].key = Produced[i].name
         ELSE IsSuffixedKey(Merged[i].key, Produced[i].name)

\* C17: merging never replaces a stored skill; the merged mapping has as
\* many entries as the documents produced, each with its content; a skill
\* whose name is not yet a key keeps the plain key, and one whose name is a
\* key already, be it the key of an earlier skill of that name or the
\* suffixed key given to a skill of another name, is stored under a
\* suffixed key.
C17_MergeKeepsEverySkill ==
  SkillsBuilt =>
    /\ EverySkillKept
    /\ \A i \in DOMAIN Merged :
         IF \A j \in 1 .. i - 1 : Merged[j].key # Produced[i].name
         THEN Merged[i].key = Produced[i].name
         ELSE IsSuffixedKey(Merged[i].key, Produced[i].name)

\* two documents with a skill of one name and different contents, both kept
C17_Witness ==
  /\ SkillsBuilt
  /\ Len(skill_texts) = 2
  /\ Len(Merged) = 2
  /\ Merged[1].key = "Boule de feu"
  /\ Merged[2].key = "Boule de feu (2)"
  /\ Merged[1].value.name = Merged[2].value.name
  /\ Merged[1].value.description # Merged[2].value.description
  /\ parse_skills_md(skill_texts[2])[1].key = "Boule de feu"

----------------------------------------------------------------------------
(* The compendium read back from its JSON form *)

\* C19: a compendium built by the parsers and passed through to_dict, the
\* JSON form and from_dict is field for field what it was: every monster
\* has the same fields, its variants are keyed by the same integers, every
\* variant field, base_attack included, has the same value and type, and
\* every skill has the same fields.
C19_RoundTripIdentity ==
  (compendium # None /\ reloaded # None) =>
    /\ reloaded.monsters = compendium.monsters
    /\ Len(reloaded.skills) = Len(compendium.skills)
    /\ \A i \in DOMAIN compendium.skills :
         /\ reloaded.skills[i].key = compendium.skills[i].key
         /\ \A f \in SkillFields :
              reloaded.skills[i].value[f] = compendium.skills[i].value[f]

\* C20: a document in the format of the docstring of parse_skills_md, a
\* "### Name" heading followed by Description, Coût MP and Condition lines,
\* gives a Skill stored under that name with description, cost and
\* condition filled from those lines.
C20_DocumentedFormatParsed ==
  (SkillsBuilt /\ skill_texts = <<DocumentedSkill>>) =>
    /\ "Boule de feu" \in DictKeys(Merged)
    /\ DictOf(Merged)["Boule de feu"].description = "brûle"
    /\ DictOf(Merged)["Boule de feu"].cost_mp = "10 PM"
    /\ DictOf(Merged)["Boule de feu"].condition = "aucune"

----------------------------------------------------------------------------
(* The monster block parser read against its line classes *)

\* the variants of every monster of the parsed bestiaire
StoredVariants ==
  UNION {{compendium.monsters[k].variants[l] : l \in DOMAIN compendium.monsters[k].variants} :
           k \in DOMAIN compendium.monsters}

\* hp_max, mp_max and the five attributes are 0 and there is no extra content
IsEmptyVariant(v) ==
  /\ \A k \in {"hp_max", "mp_max", "STR", "AGI", "INT", "DEX", "VIT"} : v[k] = Zero
  /\ v.extra = None

\* C21: the output of parse_monsters_bestiaire contains no empty variant: no
\* stored variant has hp_max, mp_max and the five attributes at 0 and no
\* extra content, so a level header followed by no stat line leaves no
\* variant behind.
C21_NoEmptyVariant ==
  BestiaireBuilt => \A v \in StoredVariants : ~IsEmptyVariant(v)

\* the lines of the block of a header, the header left out
BlockLines(i) == i + 1 .. BlockEnd(i)

\* the line that opens the variant block line j belongs to: the last level
\* or phase line before it, or the header of the monster
SegmentStart(i, j) ==
  SetMax({k \in i + 1 .. j - 1 : md_text[k].kind \in {"level", "phase"}} \cup {i})

\* "- **HP:** ..." and "- **MP:** ..." lines with a number
IsHpMpLine(line) == line.kind = "item" /\ line.key \in {"HP", "MP"} /\ line.digits >= 0

\* the first line of its key in its variant block
FirstOfItsKey(i, j) ==
  \A k \in SegmentStart(i, j) + 1 .. j - 1 :
    ~(md_text[k].kind = "item" /\ md_text[k].key = md_text[j].key)

\* the number to the right of the slash, the whole number without a slash
MaxValue(line) == IF "max" \in DOMAIN line THEN line.max ELSE line.digits

\* hp_max for an HP line, mp_max for an MP line
MaxField(line) == IF line.key = "HP" THEN "hp_max" ELSE "mp_max"

\* the variants line j of the block of header i can have gone to: the one of
\* the level of its block when no later block of the monster repeats that
\* level, the ones with a synthetic level when its block has no level
VariantsOfLine(i, j) ==
  LET open == md_text[SegmentStart(i, j)]
  IN  IF open.kind = "level"
      THEN {EntryVariants(i)[l] : l \in {open.lvl} \cap DOMAIN EntryVariants(i)}
      ELSE {EntryVariants(i)[l] : l \in {x \in DOMAIN EntryVariants(i) : x > 10000}}

\* no later block of the monster has the level of the block of line j
LevelNotRepeated(i, j) ==
  \A k \in j + 1 .. BlockEnd(i) :
    md_text[k].kind = "level" => md_text[SegmentStart(i, j)].kind # "level"
                                  \/ md_text[k].lvl # md_text[SegmentStart(i, j)].lvl

\* C22: for an HP or MP line "cur/max" of a monster block the variant's
\* hp_max (mp_max) is the number to the right of the slash, and for a line
\* without a slash it is the whole number.
C22_MaxIsRightOfSlash ==
  BestiaireBuilt =>
    \A i \in AcceptedHeaders :
      \A j \in BlockLines(i) :
        (IsHpMpLine(md_text[j]) /\ FirstOfItsKey(i, j) /\ LevelNotRepeated(i, j)) =>
          \E v \in VariantsOfLine(i, j) : v[MaxField(md_text[j])] = Float(MaxValue(md_text[j]))

\* the names the parser has a line class for (lines 346-347)
RecognisedKeys ==
  {"HP", "MP", "STR", "AGI", "INT", "DEX", "VIT", "Attaque de base", "Drop", "Zone"}

\* a "- **Key:** value" line with a key of no line class, outside an
\* abilities list
IsGenericLine(i, j) ==
  /\ md_text[j].kind = "item"
  /\ md_text[j].key \notin RecognisedKeys
  /\ \A k \in SegmentStart(i, j) .. j - 1 : md_text[k].kind # "abilities_h"

\* C23: a "- **Key:** value" line of a monster block whose key is not a
\* recognised name is stored in the extra map of the current variant under
\* that key: extra[Key] = value.
C23_GenericLineInExtra ==
  BestiaireBuilt =>
    \A i \in AcceptedHeaders :
      \A j \in BlockLines(i) :
        (IsGenericLine(i, j) /\ FirstOfItsKey(i, j) /\ LevelNotRepeated(i, j)) =>
          \E v \in VariantsOfLine(i, j) :
            /\ v.extra # None
            /\ md_text[j].key \in DOMAIN v.extra
            /\ v.extra[md_text[j].key] = md_text[j].desc

\* the header line ends with the crown marker
HasCrown(line) == "crown" \in DOMAIN line

\* C24: a monster header with the crown marker yields a Monster whose rarity
\* marks it as a boss, and a header without the marker a Monster with no
\* boss rarity.
C24_CrownMeansBoss ==
  BestiaireBuilt =>
    \A i \in AcceptedHeaders :
      MonsterKind(compendium.monsters[HeaderKey(i)]) = "Boss" <=> HasCrown(md_text[i])

\* the separator lines of the block of a header
Separators(i) == {j \in BlockLines(i) : md_text[j].kind = "sep"}

\* the block of a header up to its first separator
BeforeSeparator(i) == SubSeq(md_text, i, SetMin(Separators(i)) - 1)

\* C25: a separator line "---" inside a monster block flushes the variant and
\* the monster in progress: the lines read before it are stored as the
\* variants of that monster, and the lines after it are not added to it.
C25_SeparatorClosesMonster ==
  BestiaireBuilt =>
    \A i \in AcceptedHeaders :
      Separators(i) # {} =>
        EntryVariants(i) = parse_monsters_bestiaire(BeforeSeparator(i))[md_text[i].name].variants

----------------------------------------------------------------------------
(* The turn order of an encounter that has started *)

\* the encounters followed, their participants appended one after the other
\* and ids given in that order: a player before two mobs, and a mob added
\* before two players
TurnLineUps ==
  LET guerrier == CHOOSE p \in PlayersRoster : TRUE
      lapin == CHOOSE m \in CompendiumMonsters : m.name = "Lapin"
      pj == <<"player", _player_to_runtime(guerrier)>>
      LineUp(entries) ==
        [i \in DOMAIN entries |->
           [id |-> i, side |-> entries[i][1], runtime |-> entries[i][2]]]
  IN  { LineUp(<<pj, <<"mob", _monster_to_runtime(lapin, 1)>>,
                     <<"mob", _monster_to_runtime(lapin, 2)>>>>),
        LineUp(<<<<"mob", _monster_to_runtime(lapin, 1)>>, pj, pj>>) }

\* the encounter screens after the participants have been added and before
\* the first action
InitTurns ==
  /\ app = "encounter"
  /\ disk = <<>>
  /\ entities = <<>>
  /\ vit_div \in VitDivs
  /\ last_result = None
  /\ combat_log = 0
  /\ participants \in TurnLineUps
  /\ turn_index = 0
  /\ round = 1
  /\ log = EmptyLog
  /\ next_id = Len(participants) + 1
  /\ call = None
  /\ ncalls = 0
  /\ monster = NoMonster
  /\ lvl = 0
  /\ variant = None
  /\ MdIdle

\* the two buttons of the action panel
NextTurns ==
  \/ EncAttack
  \/ EncPassTurn

SpecTurns == InitTurns /\ [][NextTurns]_vars

\* every participant, the players before the mobs, the dead kept in place
RoundOrder(ps) ==
  SelectSeq(ps, LAMBDA p : p.side = "player") \o SelectSeq(ps, LAMBDA p : p.side = "mob")

\* who has to act after actor a: the next living participant of the round,
\* and the first living one, in a new round, when a was the last
NextInRound(ps, a) ==
  LET order == RoundOrder(ps)
      pa == CHOOSE i \in DOMAIN order : order[i].id = a.id
      living == {i \in DOMAIN order : Gt(order[i].runtime.hp, Zero)}
      later == {i \in living : i > pa}
  IN  IF living = {} THEN None
      ELSE IF later # {} THEN order[SetMin(later)]
      ELSE order[SetMin(living)]

\* an attack or a passed turn
TurnTaken == app = "encounter" /\ turn_index' = turn_index + 1

\* C26: one round is every living player acting once and then every living
\* mob acting once: after an attack or a passed turn the actor is the next
\* living participant of the round, so no living participant is skipped and
\* none acts twice in a round, also when a participant dies during the round.
C26_RoundRobinOrder ==
  [][TurnTaken =>
       current_actor(participants', turn_index')
         = NextInRound(participants', current_actor(participants, turn_index))]_vars

\* the participant of that id has hp > 0
IsAlive(ps, id) == Gt(ps[IndexOfId(ps, id)].runtime.hp, Zero)

\* the actor the panels show and the targets the action panel offers are alive,
\* and there is no actor exactly when nobody is alive
LivingOnly ==
  LET actor == current_actor(participants, turn_index)
  IN  /\ actor = None <=> \A i \in DOMAIN participants : ~Gt(participants[i].runtime.hp, Zero)
      /\ actor # None =>
            /\ IsAlive(participants, actor.id)
            /\ \A i \in DOMAIN Targets(participants, actor) :
                 IsAlive(participants, Targets(participants, actor)[i].id)

\* the action panel resolves an attack
PanelResolves == app = "encounter" /\ ncalls' = ncalls + 1

\* C27: when the action panel resolves an attack, the actor and the target
\* both have hp > 0 at that moment; a participant whose hp is 0 is not
\* returned by current_actor and not offered as a target, and current_actor
\* returns no one exactly when no participant has hp > 0.
C27_OnlyTheLivingAct ==
  [](LivingOnly) /\ [][PanelResolves => /\ IsAlive(participants, call'.attacker)
                                         /\ IsAlive(participants, call'.defender)]_vars

\* a second attack resolved between two living participants while a third
\* one is dead
C27_Witness ==
  /\ app = "encounter"
  /\ ncalls = 2
  /\ call # None
  /\ IsAlive(participants, call.attacker)
  /\ \E i \in DOMAIN participants :
       /\ participants[i].id \notin {call.attacker, call.defender}
       /\ participants[i].runtime.hp = Zero

----------------------------------------------------------------------------
(* The tier of a skill *)

\* the places of the lines of a skill document that open a skill
SkillHeaders(doc) ==
  {i \in DOMAIN doc : IsSkillHeader(doc[i]) /\ ~IsCategoryHeader(doc[i])}

\* the tier label in effect at line i: the one of the last tier header
\* before it, "" when there is none
TierAt(doc, i) ==
  LET tiers == {j \in 1 .. i - 1 : doc[j].kind = "palier"}
  IN  IF tiers = {} THEN "" ELSE "Palier " \o ToString(doc[SetMax(tiers)].pal)

\* C28: in parse_skills_md the palier of each Skill is the tier label in
\* effect when the header line of that skill was read: a tier header that
\* comes after the lines of the skill and before the next skill header,
\* category header or separator does not change it.
C28_TierOfOwnHeader ==
  (SkillsBuilt /\ Len(skill_texts) = 1) =>
    LET doc == skill_texts[1]
        heads == SkillHeaders(doc)
    IN  /\ Len(Merged) = Cardinality(heads)
        /\ \A i \in heads :
             Merged[Cardinality({h \in heads : h <= i})].value.palier = TierAt(doc, i)

----------------------------------------------------------------------------
(* Section headings and repeated levels in a monster block *)

\* a heading of the monster-header shape that holds a reserved section word
IsSectionHeading(line) == line.kind = "header" /\ line.bad

\* the text without its section headings
WithoutSectionHeadings == SelectSeq(md_text, LAMBDA line : ~IsSectionHeading(line))

\* C29: in parse_monsters_bestiaire a heading of the monster-header shape
\* with a reserved section word opens no monster and closes none: the result
\* is the one of the text without these headings, so the level and stat
\* lines after such a heading go to the monster open before it.
C29_SectionHeadingPassedOver ==
  BestiaireBuilt =>
    /\ compendium.monsters = parse_monsters_bestiaire(WithoutSectionHeadings)
    /\ \A i \in DOMAIN md_text :
         IsSectionHeading(md_text[i]) => md_text[i].name \notin DOMAIN compendium.monsters

\* a monster whose only HP line comes after a section heading of its block
\* and is in its variants
C29_Witness ==
  /\ BestiaireBuilt
  /\ \E i \in AcceptedHeaders :
       \E b \in BlockLines(i) :
         /\ IsSectionHeading(md_text[b])
         /\ \A k \in i + 1 .. b - 1 : md_text[k].kind # "item"
         /\ \E j \in b + 1 .. BlockEnd(i) :
              /\ IsHpMpLine(md_text[j])
              /\ \E l \in DOMAIN EntryVariants(i) :
                   EntryVariants(i)[l].hp_max = Float(md_text[j].digits)

\* the level lines of the block of a header
LevelLines(i) == {j \in BlockLines(i) : md_text[j].kind = "level"}

\* the last line of the variant block a level line opens
SegmentEnd(i, j) ==
  SetMin({k \in j + 1 .. BlockEnd(i) : md_text[k].kind \in {"level", "phase"}}
           \cup {BlockEnd(i) + 1}) - 1

\* the variant a level line and its lines give under the header when nothing
\* else is in the text
AloneVariant(i, j) ==
  parse_monsters_bestiaire(<<md_text[i]>> \o SubSeq(md_text, j, SegmentEnd(i, j)))
    [md_text[i].name].variants[md_text[j].lvl]

\* the level of line j is given again by a later level line of the block
GivenAgain(i, j) ==
  \E k \in LevelLines(i) : k > j /\ md_text[k].lvl = md_text[j].lvl

\* the fields of a variant that hold numbers
NumberFields == {"hp_max", "mp_max", "STR", "AGI", "INT", "DEX", "VIT", "base_attack"}

\* the block of the header has a Drop or Zone line, which goes to the monster
HasMonsterLine(i) ==
  \E k \in BlockLines(i) : md_text[k].kind = "item" /\ md_text[k].key \in {"Drop", "Zone"}

====
